---------------------------- MODULE Spec2Model ----------------------------
(***************************************************************************)
(* A model of the turbine cold-flow simulation and parameter               *)
(* identification engine of src/lib/turbine_simulator.py, and of the       *)
(* caches of DataLoader.load_shot_data of src/lib/loader.py.               *)
(*                                                                         *)
(* Numbers.  The program computes in IEEE doubles; the model computes in   *)
(* integers.  Every physical quantity is an integer count of a model unit  *)
(* of its own and every operation that rounds in the program (a division,  *)
(* a square root, a trigonometric value) rounds toward zero in the model.  *)
(* Efficiencies and trigonometric values are per-cent, times are in half   *)
(* seconds, the sensor's mass flow is in g/s.  A double that may be NaN or *)
(* infinite is a tuple: <<v>> the number v, <<>> NaN, <<1, 0>> +infinity.   *)
(***************************************************************************)
EXTENDS Integers, Sequences, FiniteSets, TLC

VARIABLES
    \* ---- TurbineSimulator construction (_load_params)
    config,          \* the config dict handed to TurbineSimulator(...)
    sim,             \* the simulator object's fields, NoSim before construction
    \* ---- one call of _run_simulation_fast
    t,               \* argument t: the time grid
    m_dot_kg_s,      \* argument m_dot_kg_s
    A_val,           \* argument A_val
    eta_val,         \* argument eta_val
    omega_sim,       \* local omega_sim: the result array (rad/s units)
    current_omega,   \* local current_omega
    i,               \* loop index of "for i in range(len(t) - 1)" (0-based)
    run_pc,          \* "idle" | "loop" | "returned"
    N_sim,           \* the returned array, omega_sim * to_rpm
    \* ---- the two sensor series and one call of process
    sensor_m_dot,    \* SensorData of the mass flow [data, fs, unit, start_time]
    sensor_rpm,      \* SensorData of the rotational speed
    proc_locals,     \* locals of process: is_rotating, T_loss_exp, ...
    results,         \* the dict process returns
    proc_pc,         \* "idle" | "returned" | "raised"
    \* ---- TurbineOptimizer and one call of fit
    base_config,     \* self.base_config, the optimizer's copy of the config
    simulator,       \* local simulator of fit
    fit_args,        \* the arguments of the call
    N_target,        \* local N_target
    mask,            \* local mask
    x0,              \* local x0, the start of the next minimize call
    delay_vals,      \* local delay_vals
    idx,             \* loop index of "for idx, delay in enumerate(delay_vals)"
    best_global_score,
    best_global_params,
    trials,          \* history: what each minimize call started from and returned
    fit_error,       \* "none", or the call whose exception left fit
    fit_ret,         \* the dict fit returns
    fit_pc,          \* "idle" | "loop" | "done" | "raised"
    \* ---- DataLoader.load_shot_data (src/lib/loader.py) and its files
    csv_file,        \* the source CSV of the shot: [mtime, content]
    raw_cache,       \* the conversion cache <file_base>.pkl: [exists, mtime, content]
    derived_cache,   \* shotNNN_derived.pkl: [exists, content]
    clock,           \* the time of the file system
    load_args,       \* the arguments of the last call: [force_reload, derived]
    data_store,      \* the dict the last call returned
    load_pc          \* "idle" | "returned" | "raised"

simVars == <<config, sim, t, m_dot_kg_s, A_val, eta_val, omega_sim,
             current_omega, i, run_pc, N_sim>>

runVars == <<t, m_dot_kg_s, A_val, eta_val, omega_sim, current_omega, i,
             run_pc, N_sim>>

sensorVars == <<sensor_m_dot, sensor_rpm>>

procVars == <<proc_locals, results, proc_pc>>

fitVars == <<base_config, simulator, fit_args, N_target, mask, x0, delay_vals, idx,
             best_global_score, best_global_params, trials, fit_error,
             fit_ret, fit_pc>>

loaderVars == <<csv_file, raw_cache, derived_cache, clock, load_args,
                data_store, load_pc>>

vars == <<simVars, sensorVars, procVars, fitVars, loaderVars>>

-----------------------------------------------------------------------------
(* Bounds of the model.                                                    *)

\* number of samples of a time grid handed to the integrator
NSamples == 4
\* largest raw rotor exit angle (degrees) a config is drawn with
MaxRawBeta2 == 90

-----------------------------------------------------------------------------
(* Arithmetic.                                                             *)

\* a / b rounded toward zero (b # 0)
TDiv(a, b) ==
    LET q(x, y) == x \div y
    IN  IF b > 0
        THEN IF a >= 0 THEN q(a, b) ELSE -q(-a, b)
        ELSE IF a >= 0 THEN -q(a, -b) ELSE q(-a, -b)

RECURSIVE SqrtIter(_, _, _)
SqrtIter(n, lo, hi) ==
    IF lo >= hi THEN lo
    ELSE LET mid == (lo + hi + 1) \div 2
         IN  IF mid * mid <= n THEN SqrtIter(n, mid, hi)
                               ELSE SqrtIter(n, lo, mid - 1)

\* np.sqrt on a non-negative number, rounded down
Sqrt(n) == SqrtIter(n, 0, IF n < 46340 THEN n ELSE 46340)

\* np.sin(np.radians(d)) in per-cent, 0 <= d <= 180 (Bhaskara's rational form)
SinPct(d) == TDiv(400 * d * (180 - d), 40500 - d * (180 - d))

\* np.cos(np.radians(d)) in per-cent, -90 <= d <= 90
CosPct(d) == SinPct(90 - d)

\* x * (p per-cent)
Pct(x, p) == TDiv(x * p, 100)

\* omega * to_rpm, to_rpm = 60 / (2 pi); one angular velocity unit is 0.1 rad/s
ToRpm(omega) == TDiv(omega * 600, 628)

\* an array given element by element, as a tuple
Arr(f) == SubSeq(f, 1, Len(f))

Zeros(n) == Arr([k \in 1..n |-> 0])

-----------------------------------------------------------------------------
(* TurbineSimulator.__init__ / _load_params                                *)

NoSim == [built |-> FALSE]

\* Python's None, and an optional value that is present
None == <<>>
Some(v) == <<v>>

\* dict.get(key, default); a key the dict lacks is a field the record lacks
Get(d, key, default) == IF key \in DOMAIN d THEN d[key] ELSE default

\* raw_beta2 corrected to the tangential reference
Beta2Deg_NoConversion(raw_beta2) == raw_beta2
Beta2Deg(raw_beta2) ==
    IF raw_beta2 > 45 THEN 90 - raw_beta2 ELSE raw_beta2

\* the empty dict {}
EmptyDict == [x \in {} |-> None]

\* opt_conf.get('value_limit_rpm', None), opt_conf = config.get('optimization', {})
ValueLimitOf(c) == Get(Get(c, "optimization", EmptyDict),
                       "value_limit_rpm", None)

\* int(proc_conf.get('median_filter_window', 11)), made odd
MedWinOf(c) ==
    LET w == Get(Get(c, "processing", EmptyDict), "median_filter_window", 11)
    IN  IF w % 2 = 0 THEN w + 1 ELSE w

\* the fields _load_params sets (eta_ad defaults to 1.0, rho to 1.165: one
\* density unit)
LoadParams(c) ==
    [ built      |-> TRUE,
      I          |-> c.I,
      r          |-> c.r,
      A          |-> Get(c, "A_eff", Get(c, "A", None)),
      alpha_deg  |-> c.alpha,
      beta2_deg  |-> Beta2Deg(Get(c, "beta2", 70)),
      eta_ad     |-> Get(c, "eta_ad", 100),
      time_delay |-> Get(c, "time_delay", 0),
      loss_A     |-> c.loss_coeffs.A,
      loss_B     |-> c.loss_coeffs.B,
      rho        |-> Get(c, "rho", 1),
      value_limit_rpm |-> ValueLimitOf(c),
      med_win    |-> MedWinOf(c),
      sigma_val  |-> Get(Get(c, "processing", EmptyDict),
                         "gaussian_filter_sigma", 5) ]

\* the exception _load_params raises on a config that lacks a required key,
\* "" when it raises none: config['I'], config['r'], float(None) of the
\* area, config['alpha'], config['loss_coeffs']['A'] and ['B'], in this order
LoadParamsError_AreaOptional(c) ==
    IF "I" \notin DOMAIN c \/ "r" \notin DOMAIN c THEN "KeyError"
    ELSE IF "alpha" \notin DOMAIN c THEN "KeyError"
    ELSE IF "loss_coeffs" \notin DOMAIN c THEN "KeyError"
    ELSE IF "A" \notin DOMAIN c.loss_coeffs \/ "B" \notin DOMAIN c.loss_coeffs
         THEN "KeyError"
    ELSE ""
LoadParamsError(c) ==
    IF "I" \notin DOMAIN c \/ "r" \notin DOMAIN c THEN "KeyError"
    ELSE IF "A_eff" \notin DOMAIN c /\ "A" \notin DOMAIN c THEN "TypeError"
    ELSE IF "alpha" \notin DOMAIN c THEN "KeyError"
    ELSE IF "loss_coeffs" \notin DOMAIN c THEN "KeyError"
    ELSE IF "A" \notin DOMAIN c.loss_coeffs \/ "B" \notin DOMAIN c.loss_coeffs
         THEN "KeyError"
    ELSE ""

\* the simulator a construction leaves: none when _load_params raises
NewSimulator(c) ==
    IF LoadParamsError(c) # ""
    THEN [built |-> FALSE, error |-> LoadParamsError(c)]
    ELSE LoadParams(c)

\* the configs of the angle convention: every raw angle, and none given
BaseConfig == [ I |-> 1, r |-> 1, A |-> 1, alpha |-> 29,
                loss_coeffs |-> [A |-> 0, B |-> 0] ]

WithField(d, key, v) ==
    [k \in DOMAIN d \cup {key} |-> IF k = key THEN v ELSE d[k]]

ParamConfigs ==
    {BaseConfig} \cup {WithField(BaseConfig, "beta2", b) : b \in 0..MaxRawBeta2}

-----------------------------------------------------------------------------
(* TurbineSimulator._run_simulation_fast                                   *)

\* element k (0-based, as in the program) of an array
At(arr, k) == arr[k + 1]

\* 1e-4 rad/s, the "almost at rest" limit of the loss term
RestThreshold == 2

\* k_v = 1.0 / (self.rho * A_val), in units where 1.0 is 100
K_v(s, Av) == TDiv(100, s.rho * Av)

\* T_fluid of the expanded velocity triangle
T_fluid(s, m_curr, omega, Av, ev) ==
    LET cos_alpha == CosPct(s.alpha_deg)
        sin_alpha == SinPct(s.alpha_deg)
        cos_beta2 == CosPct(s.beta2_deg)
        V2        == m_curr * K_v(s, Av)
        V_theta2  == Pct(V2, cos_alpha)
        U         == s.r * omega
        W_theta2  == V_theta2 - U
        W_axial2  == Pct(V2, sin_alpha)
        W2_mag    == Sqrt(W_theta2 * W_theta2 + W_axial2 * W_axial2)
        V_theta3  == U - Pct(W2_mag, cos_beta2)
    IN  Pct(m_curr * s.r * (V_theta2 - V_theta3), ev)

\* the loss torque, zero at rest
T_loss_NeverApplied(s, omega) == 0
T_loss_Ungated(s, omega) == s.loss_A + s.loss_B * omega
T_loss(s, omega) ==
    IF omega < RestThreshold THEN 0
    ELSE s.loss_A + s.loss_B * omega

\* current_omega += (net_torque * I_inv) * dt
EulerUpdate_Subtracts(s, omega, m_curr, dt, Av, ev) ==
    LET net_torque == T_fluid(s, m_curr, omega, Av, ev) - T_loss(s, omega)
    IN  omega - TDiv(net_torque, s.I) * dt
EulerUpdate(s, omega, m_curr, dt, Av, ev) ==
    LET net_torque == T_fluid(s, m_curr, omega, Av, ev) - T_loss(s, omega)
    IN  omega + TDiv(net_torque, s.I) * dt

\* if current_omega < 0: current_omega = 0.0
ClampOmega_Missing(omega) == omega
ClampOmega(omega) == IF omega < 0 THEN 0 ELSE omega

\* omega_sim[i+1] = current_omega: the (0-based) element a step writes
WriteIndex_Current(k) == k
WriteIndex(k) == k + 1

\* one iteration of "for i in range(len(t) - 1)" at index k, on the locals
\* st = [omega |-> current_omega, arr |-> omega_sim]
LoopStep_NoSkip(s, tg, m, Av, ev, k, st) ==
    LET dt == At(tg, k + 1) - At(tg, k)
        nxt == ClampOmega(EulerUpdate(s, st.omega, At(m, k), dt, Av, ev))
    IN  [ omega |-> nxt,
          arr   |-> [st.arr EXCEPT ![WriteIndex(k) + 1] = nxt] ]
LoopStep_NextFlow(s, tg, m, Av, ev, k, st) ==
    LET dt == At(tg, k + 1) - At(tg, k)
    IN  IF dt <= 0 THEN st
        ELSE LET nxt == ClampOmega(EulerUpdate(s, st.omega, At(m, k + 1), dt,
                                               Av, ev))
             IN  [ omega |-> nxt,
                   arr   |-> [st.arr EXCEPT ![WriteIndex(k) + 1] = nxt] ]
LoopStep(s, tg, m, Av, ev, k, st) ==
    LET dt == At(tg, k + 1) - At(tg, k)
    IN  IF dt <= 0 THEN st                      \* continue
        ELSE LET nxt == ClampOmega(EulerUpdate(s, st.omega, At(m, k), dt,
                                               Av, ev))
             IN  [ omega |-> nxt,
                   arr   |-> [st.arr EXCEPT ![WriteIndex(k) + 1] = nxt] ]

RECURSIVE LoopFrom(_, _, _, _, _, _, _)
LoopFrom(s, tg, m, Av, ev, k, st) ==
    IF k >= Len(tg) - 1 THEN st
    ELSE LoopFrom(s, tg, m, Av, ev, k + 1, LoopStep(s, tg, m, Av, ev, k, st))

\* the whole call: the returned rpm array
RunSimulationFast(s, tg, m, Av, ev) ==
    LET fin == LoopFrom(s, tg, m, Av, ev, 0,
                        [omega |-> 0, arr |-> Zeros(Len(tg))])
    IN  Arr([k \in 1..Len(tg) |-> ToRpm(fin.arr[k])])

\* the inputs of one call
DtVals == {-1, 0, 1}
MdotVals == {-1, 0, 2}
AreaEtaVals == { <<1, 80>>, <<2, 80>>, <<1, 1>> }

TimeGrids(n) ==
    { g \in [1..n -> (0 - n)..n] :
        /\ g[1] = 0
        /\ \A k \in 1..(n - 1) : g[k + 1] - g[k] \in DtVals }

\* the loop never reads the last sample: the arrays that differ only there
\* are one input
MdotSeqs(n) == { m \in [1..n -> MdotVals] : m[n] = 0 }

\* the loss coefficients (A, B) of the configs the integrator runs under
LossVals == { <<0, 0>>, <<40, 1>>, <<-3, 0>> }

SimConfigs ==
    { [ I |-> 1, r |-> 1, A |-> 1, alpha |-> 29, beta2 |-> 70,
        loss_coeffs |-> [A |-> l[1], B |-> l[2]] ] : l \in LossVals }

\* simulator = TurbineSimulator(config)
Construct ==
    /\ ~sim.built
    /\ sim' = NewSimulator(config)
    /\ UNCHANGED <<config, runVars, sensorVars, procVars, fitVars>>
    /\ UNCHANGED loaderVars

\* entry of _run_simulation_fast up to the loop
RunStart ==
    /\ sim.built
    /\ run_pc = "idle"
    /\ \E g \in TimeGrids(NSamples), m \in MdotSeqs(NSamples),
          x \in AreaEtaVals :
          /\ t' = g
          /\ m_dot_kg_s' = m
          /\ A_val' = x[1]
          /\ eta_val' = x[2]
          /\ omega_sim' = Zeros(Len(g))
          /\ current_omega' = 0
    /\ i' = 0
    /\ run_pc' = "loop"
    /\ UNCHANGED <<config, sim, N_sim, sensorVars, procVars, fitVars>>
    /\ UNCHANGED loaderVars

\* one iteration of the loop
SimStep ==
    /\ run_pc = "loop"
    /\ i < Len(t) - 1
    /\ LET st == LoopStep(sim, t, m_dot_kg_s, A_val, eta_val, i,
                          [omega |-> current_omega, arr |-> omega_sim])
       IN  /\ current_omega' = st.omega
           /\ omega_sim' = st.arr
    /\ i' = i + 1
    /\ UNCHANGED <<config, sim, t, m_dot_kg_s, A_val, eta_val, run_pc, N_sim,
                   sensorVars, procVars, fitVars>>
    /\ UNCHANGED loaderVars

\* return omega_sim * to_rpm
RunReturn ==
    /\ run_pc = "loop"
    /\ i >= Len(t) - 1
    /\ N_sim' = Arr([k \in 1..Len(omega_sim) |-> ToRpm(omega_sim[k])])
    /\ run_pc' = "returned"
    /\ UNCHANGED <<config, sim, t, m_dot_kg_s, A_val, eta_val, omega_sim,
                   current_omega, i, sensorVars, procVars, fitVars>>
    /\ UNCHANGED loaderVars

\* no call of _run_simulation_fast under way
NoRun ==
    /\ t = <<>>
    /\ m_dot_kg_s = <<>>
    /\ A_val = 0
    /\ eta_val = 0
    /\ omega_sim = <<>>
    /\ current_omega = 0
    /\ i = 0
    /\ run_pc = "idle"
    /\ N_sim = <<>>

\* no sensor series at hand
NoSensors ==
    /\ sensor_m_dot = EmptyDict
    /\ sensor_rpm = EmptyDict

\* no call of process under way
NoProcess ==
    /\ proc_locals = EmptyDict
    /\ results = EmptyDict
    /\ proc_pc = "idle"

\* no call of fit under way
NoFit ==
    /\ simulator = NoSim
    /\ fit_args = EmptyDict
    /\ N_target = <<>>
    /\ mask = <<>>
    /\ x0 = <<>>
    /\ delay_vals = <<>>
    /\ idx = 0
    /\ best_global_score = <<>>
    /\ best_global_params = EmptyDict
    /\ trials = <<>>
    /\ fit_error = "none"
    /\ fit_ret = EmptyDict
    /\ fit_pc = "idle"

\* no loader: no file, no call
NoLoader ==
    /\ csv_file = EmptyDict
    /\ raw_cache = EmptyDict
    /\ derived_cache = EmptyDict
    /\ clock = 0
    /\ load_args = EmptyDict
    /\ data_store = EmptyDict
    /\ load_pc = "idle"

\* no optimizer
NoOptimizer ==
    /\ base_config = EmptyDict
    /\ NoFit

InitSim ==
    /\ config \in SimConfigs
    /\ sim = NoSim
    /\ NoRun
    /\ NoSensors
    /\ NoProcess
    /\ NoOptimizer
    /\ NoLoader

NextSim == Construct \/ RunStart \/ SimStep \/ RunReturn

SpecSim == InitSim /\ [][NextSim]_vars


-----------------------------------------------------------------------------
(* SensorData, and the numpy / scipy calls of the simulator                *)

\* SensorData.time: index / fs + start_time, all zero when fs <= 0
SensorTime(sd) ==
    LET n == Len(sd.data)
    IN  IF sd.fs <= 0 THEN Zeros(n)
        ELSE Arr([k \in 1..n |-> TDiv(2 * (k - 1), sd.fs) + sd.start_time])

\* np.interp(x, xp, fp, left, right) at one point x, xp increasing
Interp(x, xp, fp, left, right) ==
    LET n == Len(xp)
    IN  IF x < xp[1] THEN left
        ELSE IF x > xp[n] THEN right
        ELSE IF x = xp[n] THEN fp[n]
        ELSE LET j == CHOOSE j \in 1..(n - 1) : xp[j] <= x /\ x < xp[j + 1]
                 slope == TDiv(fp[j + 1] - fp[j], xp[j + 1] - xp[j])
             IN  slope * (x - xp[j]) + fp[j]

\* np.interp(t - delay, sensor_m_dot.time, sensor_m_dot.data, left=0.0,
\* right=0.0) / 1000.0
DelayedMassFlow_HoldEnds(sd_m, tg, delay) ==
    LET xp == SensorTime(sd_m)
    IN  Arr([k \in 1..Len(tg) |->
               TDiv(Interp(tg[k] - delay, xp, sd_m.data, sd_m.data[1],
                           sd_m.data[Len(sd_m.data)]), 1000)])
DelayedMassFlow(sd_m, tg, delay) ==
    LET xp == SensorTime(sd_m)
    IN  Arr([k \in 1..Len(tg) |->
               TDiv(Interp(tg[k] - delay, xp, sd_m.data, 0, 0), 1000)])

\* str.lower() on the letters the unit strings are made of
LowerChar(c) ==
    CASE c = "H" -> "h" [] c = "Z" -> "z" [] c = "R" -> "r"
      [] c = "P" -> "p" [] c = "M" -> "m" [] OTHER -> c
Lower(str) == Arr([k \in 1..Len(str) |-> LowerChar(str[k])])

\* sub in str
Contains(str, sub) ==
    \E k \in 0..(Len(str) - Len(sub)) :
        \A j \in 1..Len(sub) : str[k + j] = sub[j]

\* the factor get_target_rpm converts the raw speed to rpm with
TargetUnitFactor_RpmFirst(unit) ==
    LET unit_str == Lower(unit)
    IN  IF Contains(unit_str, <<"r", "p", "m">>) THEN 1 ELSE 60
TargetUnitFactor(unit) ==
    LET unit_str == Lower(unit)
    IN  IF Contains(unit_str, <<"h", "z">>) THEN 60
        ELSE IF Contains(unit_str, <<"r", "p", "m">>) THEN 1
        ELSE 60

\* the factor process converts the raw speed to rpm with, for display
DisplayUnitFactor(unit) ==
    LET unit_str == Lower(unit)
    IN  IF Contains(unit_str, <<"h", "z">>) THEN 60 ELSE 1

\* the outlier step of get_target_rpm on the rpm series N
RemoveOutliers_Clipped(N, limit) ==
    IF limit = None THEN N
    ELSE Arr([k \in 1..Len(N) |-> IF N[k] > limit[1] THEN limit[1] ELSE N[k]])
RemoveOutliers(N, limit) ==
    IF limit = None THEN N
    ELSE LET n == Len(N)
             outlier(k) == N[k] > limit[1]
             x == Arr([k \in 1..n |-> k - 1])
             xv == SelectSeq(x, LAMBDA k : ~outlier(k + 1))
             fv == Arr([j \in 1..Len(xv) |-> N[xv[j] + 1]])
         IN  IF \A k \in 1..n : ~outlier(k) THEN N
             ELSE IF Len(xv) > 0
                  THEN Arr([k \in 1..n |->
                              IF outlier(k)
                              THEN Interp(x[k], xv, fv, fv[1], fv[Len(fv)])
                              ELSE N[k]])
                  ELSE Zeros(n)

\* the largest odd number <= n:  n if n % 2 != 0 else n - 1
OddAtMost(n) == IF n % 2 # 0 THEN n ELSE n - 1

\* safe_med_win
SafeMedWin(med_win, n) ==
    IF n < med_win
    THEN (IF OddAtMost(n) > 1 THEN OddAtMost(n) ELSE 1)
    ELSE med_win

\* sg_win
SgWin(n) ==
    LET w == IF OddAtMost(n) < 15 THEN OddAtMost(n) ELSE 15
    IN  IF w < 3 THEN 3 ELSE w

\* the median of a window of odd length
MedianOf(w) ==
    LET h == (Len(w) - 1) \div 2
    IN  CHOOSE v \in {w[j] : j \in 1..Len(w)} :
          /\ Cardinality({j \in 1..Len(w) : w[j] < v}) <= h
          /\ Cardinality({j \in 1..Len(w) : w[j] <= v}) >= h + 1

\* scipy.signal.medfilt(f, kernel_size): the median of the kernel_size
\* samples around each sample, zeros beyond both ends
MedFilt(f, kernel_size) ==
    LET n == Len(f)
        h == (kernel_size - 1) \div 2
        pad(k) == IF k >= 1 /\ k <= n THEN f[k] ELSE 0
    IN  Arr([k \in 1..n |->
               LET w == Arr([j \in 1..kernel_size |-> pad(k - h - 1 + j)])
               IN  MedianOf(w)])

\* scipy.signal.savgol_filter(f, window_length=5, polyorder=3), mode
\* 'interp': each sample is replaced by the value of the least-squares cubic
\* through the 5 samples of its window (the first / last window for the two
\* samples at each end).  The cubic through 5 equidistant samples y differs
\* from y by c * (c . y) / 70, c = (1, -4, 6, -4, 1).
Savgol5(f) ==
    LET n == Len(f)
        c == <<1, -4, 6, -4, 1>>
        centre(k) == IF k < 3 THEN 3 ELSE IF k > n - 2 THEN n - 2 ELSE k
        D(m) == f[m - 2] - 4 * f[m - 1] + 6 * f[m] - 4 * f[m + 1] + f[m + 2]
    IN  Arr([k \in 1..n |->
               f[k] - TDiv(c[k - centre(k) + 3] * D(centre(k)), 70)])

\* N_rpm * (2 * np.pi / 60.0)
ToRad(N) == TDiv(N * 628, 600)

\* whether savgol_filter raises ValueError: polyorder 3 needs a window of
\* more than 3 samples, mode 'interp' a window no longer than the series
SavgolRaises(n) == SgWin(n) <= 3 \/ SgWin(n) > n

\* A numpy array as an object: its values, and whether the object is the
\* data array of the SensorData passed in (so that writing into it in place
\* changes the caller's series).
\* sensor_rpm.data.copy()
CopyOfData_SameObject(data) == [val |-> data, input |-> TRUE]
CopyOfData(data) == [val |-> data, input |-> FALSE]

\* N_raw * 60.0, a new array; N_rpm = N_raw is the array N_raw itself
UnitConverted(N_raw, factor) ==
    IF factor = 1 THEN N_raw
    ELSE [ val |-> Arr([k \in 1..Len(N_raw.val) |-> N_raw.val[k] * factor]),
           input |-> FALSE ]

\* get_target_rpm(sensor_rpm): whether it raised, the returned N, the locals
\* of the call and the data array of sensor_rpm after it; the model holds
\* the smoothing window of 5 samples, that of a series of 5 or 6 samples
GetTargetRpm(s, sd) ==
    LET n == Len(sd.data)
        N_raw == CopyOfData(sd.data)
        N_rpm0 == UnitConverted(N_raw, TargetUnitFactor(sd.unit))
        N_rpm == RemoveOutliers(N_rpm0.val, s.value_limit_rpm)
        omega_exp == Arr([k \in 1..n |-> ToRad(N_rpm[k])])
        safe_med_win == SafeMedWin(s.med_win, n)
        omega_med == MedFilt(omega_exp, safe_med_win)
        seen == [ N_converted |-> N_rpm0.val, N_rpm |-> N_rpm,
                  safe_med_win |-> safe_med_win, sg_win |-> SgWin(n) ]
        data_after == IF N_rpm0.input THEN N_rpm ELSE sd.data
    IN  IF SavgolRaises(n)
        THEN [ raised |-> TRUE, N |-> <<>>, locals |-> seen,
               data_after |-> data_after ]
        ELSE LET omega_smooth_disp == Savgol5(omega_med)
             IN  [ raised |-> FALSE,
                   N |-> Arr([k \in 1..n |-> ToRpm(omega_smooth_disp[k])]),
                   locals |-> seen, data_after |-> data_after ]

\* scipy.ndimage.gaussian_filter1d(f, sigma), boundary mode 'reflect'; the
\* model's kernel is the binomial (1, 2, 1) / 4 for every sigma
GaussianFilter1d(f, sigma) ==
    LET n == Len(f)
        at(k) == IF k < 1 THEN f[1] ELSE IF k > n THEN f[n] ELSE f[k]
    IN  Arr([k \in 1..n |-> TDiv(at(k - 1) + 2 * at(k) + at(k + 1), 4)])

\* doubles that may be NaN or infinite
NaN == <<>>
Inf == <<1, 0>>
Fin(v) == <<v>>
IsFin(x) == Len(x) = 1

\* np.gradient(f, tg) on the evenly spaced time grid of a SensorData: central
\* differences inside, one-sided at both ends; a zero spacing (fs <= 0)
\* divides by zero and leaves no finite value
Gradient(f, tg) ==
    LET n == Len(f)
        h == tg[2] - tg[1]
    IN  Arr([k \in 1..n |->
               IF h = 0 THEN NaN
               ELSE IF k = 1 THEN Fin(TDiv(f[2] - f[1], h))
               ELSE IF k = n THEN Fin(TDiv(f[n] - f[n - 1], h))
               ELSE Fin(TDiv(f[k + 1] - f[k - 1], 2 * h))])

\* _calc_fluid_torque at one sample
CalcFluidTorque_AddsExitSwirl(s, omega, m_dot) ==
    LET V2        == TDiv(m_dot * 100, s.rho * s.A)
        V_theta2  == Pct(V2, CosPct(s.alpha_deg))
        U         == s.r * omega
        W_theta2  == V_theta2 - U
        W_axial2  == Pct(V2, SinPct(s.alpha_deg))
        W2_mag    == Sqrt(W_theta2 * W_theta2 + W_axial2 * W_axial2)
        W_theta3_mag == Pct(W2_mag, CosPct(s.beta2_deg))
        V_theta3  == U + W_theta3_mag
        T_ideal   == m_dot * s.r * (V_theta2 - V_theta3)
    IN  Pct(T_ideal, s.eta_ad)
CalcFluidTorque(s, omega, m_dot) ==
    LET V2        == TDiv(m_dot * 100, s.rho * s.A)
        V_theta2  == Pct(V2, CosPct(s.alpha_deg))
        U         == s.r * omega
        W_theta2  == V_theta2 - U
        W_axial2  == Pct(V2, SinPct(s.alpha_deg))
        W2_mag    == Sqrt(W_theta2 * W_theta2 + W_axial2 * W_axial2)
        W_theta3_mag == Pct(W2_mag, CosPct(s.beta2_deg))
        V_theta3  == U - W_theta3_mag
        T_ideal   == m_dot * s.r * (V_theta2 - V_theta3)
    IN  Pct(T_ideal, s.eta_ad)

\* simulator.get_target_rpm(sensor_rpm)
GetTarget ==
    /\ sim.built
    /\ proc_pc = "idle"
    /\ LET call == GetTargetRpm(sim, sensor_rpm)
       IN  /\ proc_locals' = call.locals
           /\ results' = [N |-> call.N]
           /\ proc_pc' = IF call.raised THEN "raised" ELSE "returned"
           /\ sensor_rpm' = [sensor_rpm EXCEPT !.data = call.data_after]
    /\ UNCHANGED <<simVars, sensor_m_dot, fitVars>>
    /\ UNCHANGED loaderVars

-----------------------------------------------------------------------------
(* The construction alone, over every raw rotor exit angle.                *)

InitParams ==
    /\ config \in ParamConfigs
    /\ sim = NoSim
    /\ NoRun
    /\ NoSensors
    /\ NoProcess
    /\ NoOptimizer
    /\ NoLoader

NextParams == Construct

SpecParams == InitParams /\ [][NextParams]_vars


-----------------------------------------------------------------------------
(* TurbineSimulator.process                                                *)

\* the "not rotating" limit in rpm
RotatingRpm == 10

\* is_rotating = omega_exp_rpm > 10.0, at one sample
IsRotating(N) == N > RotatingRpm

\* T_loss_exp: zeros, and self.loss_A + self.loss_B * omega_for_deriv where
\* the rotor rotates
TLossExp(s, rotating, omega) ==
    IF rotating THEN s.loss_A + s.loss_B * omega ELSE 0

\* T_actual[~is_rotating] = 0.0, at one sample
ZeroWhereStopped_Missing(T, rotating) == T
ZeroWhereStopped(T, rotating) == IF rotating THEN T ELSE Fin(0)

\* self.I * d_omega_dt + T_loss_exp, at one sample
TActualRaw(s, d, T_loss_exp) ==
    IF IsFin(d) THEN Fin(s.I * d[1] + T_loss_exp) ELSE NaN

\* N_exp_raw_disp: the raw speed in rpm, NaN above the limit
RawDisplay(sd, limit) ==
    LET factor == DisplayUnitFactor(sd.unit)
    IN  Arr([k \in 1..Len(sd.data) |->
               LET v == sd.data[k] * factor
               IN  IF limit # None /\ v > limit[1] THEN NaN ELSE Fin(v)])

\* the locals and the returned dict of process(sensor_m_dot, sensor_rpm)
ProcessCall(s, sd_m, sd_rpm) ==
    LET tg == SensorTime(sd_rpm)
        n == Len(tg)
        m_kg == DelayedMassFlow(sd_m, tg, s.time_delay)
        sim_rpm == RunSimulationFast(s, tg, m_kg, s.A, s.eta_ad)
        target == GetTargetRpm(s, sd_rpm)
    IN  IF target.raised
        THEN [ raised |-> TRUE, locals |-> EmptyDict, results |-> EmptyDict,
               data_after |-> target.data_after ]
        ELSE
        LET N_filtered == target.N
            omega_exp_rad == Arr([k \in 1..n |-> ToRad(N_filtered[k])])
            omega_for_deriv == GaussianFilter1d(omega_exp_rad, s.sigma_val)
            d_omega_dt == Gradient(omega_for_deriv, tg)
            is_rotating == Arr([k \in 1..n |-> IsRotating(N_filtered[k])])
            T_loss_exp ==
                Arr([k \in 1..n |->
                       TLossExp(s, is_rotating[k], omega_for_deriv[k])])
            T_actual ==
                Arr([k \in 1..n |->
                       ZeroWhereStopped(
                           TActualRaw(s, d_omega_dt[k], T_loss_exp[k]),
                           is_rotating[k])])
            is_flowing == Arr([k \in 1..n |-> m_kg[k] > 0])
            T_ideal_eff_arr ==
                Arr([k \in 1..n |->
                       IF ~(is_rotating[k] \/ is_flowing[k]) THEN 0
                       ELSE CalcFluidTorque(s, omega_for_deriv[k], m_kg[k])])
        IN  [ raised |-> FALSE,
              \* the NaN marks of N_exp_raw_disp go into a copy of its own
              data_after |-> target.data_after,
              locals |-> [ target |-> target.locals,
                           is_rotating |-> is_rotating,
                           omega_for_deriv |-> omega_for_deriv,
                           d_omega_dt |-> d_omega_dt,
                           T_loss_exp |-> T_loss_exp ],
              results |->
                [ N_sim |-> sim_rpm,
                  N_exp_raw |-> RawDisplay(sd_rpm, s.value_limit_rpm),
                  N_exp_filtered |-> N_filtered,
                  T_actual |-> T_actual,
                  T_ideal_point |->
                      GaussianFilter1d(T_ideal_eff_arr, s.sigma_val),
                  T_ideal_raw |-> T_ideal_eff_arr,
                  m_dot_kg |-> m_kg ] ]

\* simulator.process(sensor_m_dot, sensor_rpm)
Process ==
    /\ sim.built
    /\ proc_pc = "idle"
    /\ LET call == ProcessCall(sim, sensor_m_dot, sensor_rpm)
       IN  /\ proc_locals' = call.locals
           /\ results' = call.results
           /\ proc_pc' = IF call.raised THEN "raised" ELSE "returned"
           /\ sensor_rpm' = [sensor_rpm EXCEPT !.data = call.data_after]
    /\ UNCHANGED <<simVars, sensor_m_dot, fitVars>>
    /\ UNCHANGED loaderVars

\* number of samples of the rotational-speed series
NSeries == 5

\* a series too short for the smoothing window
NShort == 3

\* the rotational-speed series: ramps, steps and spikes around the
\* "not rotating" limit, in rpm and in Hz, over a live and a degenerate
\* (fs = 0) time axis
RpmVals == {0, 11, 300}

RpmSensors ==
    { [data |-> d, fs |-> f, unit |-> u, start_time |-> 0] :
        d \in [1..NSeries -> RpmVals] \cup {[k \in 1..NShort |-> 300]},
        f \in {0, 2},
        u \in { <<"r", "p", "m">>, <<"H", "z">> } }

\* the mass-flow series, one sample a second: flow that sets in
MdotSensors ==
    { [data |-> d, fs |-> 1, unit |-> <<"g", "/", "s">>, start_time |-> 0] :
        d \in { <<0, 2000, 2000>>, <<2000, 1000, 0>> } }

ProcConfigs ==
    { [ I |-> 1, r |-> 1, A |-> 1, alpha |-> 29, beta2 |-> 70, eta_ad |-> 80,
        time_delay |-> 1, loss_coeffs |-> [A |-> 40, B |-> 1],
        optimization |-> o ] :
      o \in { EmptyDict, [value_limit_rpm |-> Some(500)] } }

InitProc ==
    /\ config \in ProcConfigs
    /\ sim = NoSim
    /\ NoRun
    /\ sensor_m_dot \in MdotSensors
    /\ sensor_rpm \in RpmSensors
    /\ NoProcess
    /\ NoOptimizer
    /\ NoLoader

NextProc == Construct \/ Process

SpecProc == InitProc /\ [][NextProc]_vars

-----------------------------------------------------------------------------
(* get_target_rpm alone, over series of every length up to NSeries, unit   *)
(* strings of every kind and outlier limits.                               *)

\* the unit strings: rpm, RPM, kHz, rad/s, rpm/Hz
UnitStrings ==
    { <<"r", "p", "m">>, <<"R", "P", "M">>, <<"k", "H", "z">>,
      <<"r", "a", "d", "/", "s">>, <<"r", "p", "m", "/", "H", "z">> }

TargetRpmVals == {0, 100, 300}

TargetSensors ==
    { [data |-> d, fs |-> 2, unit |-> u, start_time |-> 0] :
        d \in UNION { [1..n -> TargetRpmVals] : n \in 1..NSeries },
        u \in UnitStrings }

\* no limit, a limit that is one of the sample values, a negative limit
TargetConfigs ==
    { [ I |-> 1, r |-> 1, A |-> 1, alpha |-> 29, beta2 |-> 70, eta_ad |-> 80,
        loss_coeffs |-> [A |-> 40, B |-> 1], optimization |-> o ] :
      o \in { EmptyDict, [value_limit_rpm |-> Some(100)],
              [value_limit_rpm |-> Some(-5)] } }

InitTarget ==
    /\ config \in TargetConfigs
    /\ sim = NoSim
    /\ NoRun
    /\ sensor_m_dot = EmptyDict
    /\ sensor_rpm \in TargetSensors
    /\ NoProcess
    /\ NoOptimizer
    /\ NoLoader

NextTarget == Construct \/ GetTarget

SpecTarget == InitTarget /\ [][NextTarget]_vars

-----------------------------------------------------------------------------
(* TurbineOptimizer: __init__ and fit.  Areas of the model are in units of *)
(* half a square millimetre, so that 1e-6 and 1e6 are the factors 2 and    *)
(* 1/2; delays are in half-seconds, efficiencies per cent.                 *)

\* A_range_mm2[k] * 1e-6
Mm2ToM2(a) == a * 2

\* res.x[0] * 1e6
M2ToMm2(a) == TDiv(a, 2)

\* update_params(A_eff, eta_ad, time_delay): each argument None or Some(v)
UpdateParams(s, A_eff, eta_ad, time_delay) ==
    [ s EXCEPT !.A = IF A_eff # None THEN A_eff[1] ELSE @,
               !.eta_ad = IF eta_ad # None THEN eta_ad[1] ELSE @,
               !.time_delay = IF time_delay # None THEN time_delay[1] ELSE @ ]

\* the value_limit step of fit on a config dict
SetValueLimit(c, value_limit) ==
    WithField(c, "optimization",
              WithField(Get(c, "optimization", EmptyDict),
                        "value_limit_rpm", value_limit))

\* np.max of a non-empty series
MaxOf(f) == CHOOSE v \in {f[k] : k \in 1..Len(f)} :
                \A k \in 1..Len(f) : f[k] <= v

\* mask = N_target > (np.max(N_target) * 0.05)
MaskOf_AtLeast(N) == Arr([k \in 1..Len(N) |-> N[k] * 100 >= MaxOf(N) * 5])
MaskOf(N) == Arr([k \in 1..Len(N) |-> N[k] * 100 > MaxOf(N) * 5])

\* bounds: [A, eta], each a pair (lower, upper)
BoundsOf(args) ==
    [ A   |-> <<Mm2ToM2(args.A_range_mm2[1]), Mm2ToM2(args.A_range_mm2[2])>>,
      eta |-> <<args.eta_range[1], args.eta_range[2]>> ]

\* the initial x0: the midpoints of the bounds
Midpoints(b) == << TDiv(b.A[1] + b.A[2], 2), TDiv(b.eta[1] + b.eta[2], 2) >>

\* np.arange(d0, d1 + step / 2, step), step > 0
DelayVals_NoMargin(delay_range) ==
    LET d0 == delay_range[1]
        d1 == delay_range[2]
        step == delay_range[3]
        n == IF d1 <= d0 THEN 0 ELSE -((d0 - d1) \div step)
    IN  Arr([k \in 1..n |-> d0 + (k - 1) * step])
DelayVals(delay_range) ==
    LET d0 == delay_range[1]
        d1 == delay_range[2]
        step == delay_range[3]
        span == 2 * (d1 - d0) + step
        n == IF span <= 0 THEN 0 ELSE -((-span) \div (2 * step))
    IN  Arr([k \in 1..n |-> d0 + (k - 1) * step])

\* the sum of a series
RECURSIVE SumSeq(_)
SumSeq(f) == IF f = <<>> THEN 0 ELSE f[1] + SumSeq(Tail(f))

\* np.sqrt(np.mean(diff**2)) over the masked samples; the mean of no sample
\* is NaN
Rmse_EmptyAsZero(N, Nt, mk) ==
    LET sel == SelectSeq(Arr([k \in 1..Len(N) |-> k]), LAMBDA k : mk[k])
        sq == Arr([j \in 1..Len(sel) |->
                     (N[sel[j]] - Nt[sel[j]]) * (N[sel[j]] - Nt[sel[j]])])
    IN  IF Len(sel) = 0 THEN Fin(0)
        ELSE Fin(Sqrt(TDiv(SumSeq(sq), Len(sel))))
Rmse(N, Nt, mk) ==
    LET sel == SelectSeq(Arr([k \in 1..Len(N) |-> k]), LAMBDA k : mk[k])
        sq == Arr([j \in 1..Len(sel) |->
                     (N[sel[j]] - Nt[sel[j]]) * (N[sel[j]] - Nt[sel[j]])])
    IN  IF Len(sel) = 0 THEN NaN
        ELSE Fin(Sqrt(TDiv(SumSeq(sq), Len(sel))))

\* objective_func(x, current_m_dot)
ObjectiveFunc(s, tg, Nt, mk, x, current_m_dot) ==
    Rmse(RunSimulationFast(s, tg, current_m_dot, x[1], x[2]), Nt, mk)

\* a < b on floats: false when either is NaN
ScoreLess_OrEqual(a, b) ==
    /\ IsFin(a)
    /\ b # NaN
    /\ b = Inf \/ a[1] <= b[1]
ScoreLess(a, b) ==
    /\ IsFin(a)
    /\ b # NaN
    /\ b = Inf \/ a[1] < b[1]

\* the (x, fun) results minimize(objective_func, x0, method='L-BFGS-B',
\* bounds=bounds) can return: a point of the box (of its corners, edge
\* midpoints and centre, or the start) no worse than the start, with the
\* objective's value there; the start itself where the objective is NaN
MinimizeResults(s, tg, Nt, mk, m, b, start) ==
    LET f0 == ObjectiveFunc(s, tg, Nt, mk, start, m)
        mid == Midpoints(b)
        box == {start} \cup ({b.A[1], mid[1], b.A[2]} \X
                              {b.eta[1], mid[2], b.eta[2]})
        res(x) == [x |-> x, fun |-> ObjectiveFunc(s, tg, Nt, mk, x, m)]
    IN  IF f0 = NaN THEN { [x |-> start, fun |-> NaN] }
        ELSE { r \in {res(x) : x \in box} : r.fun[1] <= f0[1] }

\* most delay trials of one call
MaxTrials == 3

\* the calls of fit: one delay, MaxTrials delays half a second apart, two
\* delays a second apart with and without the upper end on the grid, a
\* step of 1.5 s over a range of 1 s; with and without a value limit
FitArgs ==
    { [ A_range_mm2 |-> <<1, 3, 1>>, eta_range |-> <<0, 100, 1>>,
        delay_range |-> d, value_limit |-> v ] :
      d \in { <<0, 0, 1>>, <<0, MaxTrials - 1, 1>>, <<1, 3, 2>>, <<0, 3, 2>>,
               <<0, 2, 3>> },
      v \in { None, Some(150) } }

\* the rotational-speed series of a fit: at rest, a ramp, a plateau with a
\* spike, and one too short for the smoothing window
FitRpmSensors ==
    { [data |-> d, fs |-> 2, unit |-> <<"r", "p", "m">>, start_time |-> 0] :
        d \in { Zeros(NSeries),
                Arr([k \in 1..NSeries |-> 30 * (k - 1)]),
                Arr([k \in 1..NSeries |-> IF k = 3 THEN 300 ELSE 60]),
                Arr([k \in 1..NSeries |-> 100]),
                Arr([k \in 1..NShort |-> 300]) } }

FitConfigs ==
    { [ I |-> 1, r |-> 1, A |-> 1, alpha |-> 29, beta2 |-> 70, eta_ad |-> 80,
        loss_coeffs |-> [A |-> 40, B |-> 1] ] } \cup
    { [ I |-> 1, r |-> 1, A |-> 1, alpha |-> 29, beta2 |-> 70, eta_ad |-> 80,
        loss_coeffs |-> [A |-> 40, B |-> 1],
        optimization |-> [value_limit_rpm |-> Some(500)] ] }

\* optimizer = TurbineOptimizer(config)
NewOptimizer ==
    /\ base_config = EmptyDict
    /\ base_config' = config
    /\ UNCHANGED <<simVars, sensorVars, procVars, simulator, fit_args,
                   N_target, mask, x0, delay_vals, idx, best_global_score,
                   best_global_params, trials, fit_error, fit_ret, fit_pc>>
    /\ UNCHANGED loaderVars

\* fit(sensor_m_dot, sensor_rpm, A_range_mm2, eta_range, delay_range,
\* value_limit) up to the loop.  The copy() of __init__ is shallow: a nested
\* 'optimization' dict the caller's config has is the one base_config has.
FitStart ==
    /\ base_config # EmptyDict
    /\ fit_pc = "idle"
    /\ \E args \in FitArgs :
         LET limited == args.value_limit # None
             bc == IF limited THEN SetValueLimit(base_config, args.value_limit)
                   ELSE base_config
             cc == IF limited /\ "optimization" \in DOMAIN config
                   THEN SetValueLimit(config, args.value_limit)
                   ELSE config
             built == NewSimulator(bc)
             target == GetTargetRpm(built, sensor_rpm)
         IN  /\ fit_args' = args
             /\ base_config' = bc
             /\ config' = cc
             /\ simulator' = built
             /\ IF ~built.built
                THEN /\ fit_pc' = "raised"
                     /\ fit_error' = "config"
                     /\ UNCHANGED <<sensor_rpm, N_target, mask, x0,
                                    delay_vals, best_global_score>>
                ELSE
                /\ sensor_rpm' = [sensor_rpm EXCEPT !.data = target.data_after]
                /\ IF target.raised
                   THEN /\ fit_pc' = "raised"
                        /\ fit_error' = "get_target_rpm"
                        /\ UNCHANGED <<N_target, mask, x0, delay_vals,
                                       best_global_score>>
                   ELSE /\ N_target' = target.N
                        /\ mask' = MaskOf(target.N)
                        /\ x0' = Midpoints(BoundsOf(args))
                        /\ delay_vals' = DelayVals(args.delay_range)
                        /\ best_global_score' = Inf
                        /\ fit_pc' = "loop"
                        /\ UNCHANGED fit_error
    /\ UNCHANGED <<sim, runVars, sensor_m_dot, procVars, idx,
                   best_global_params, trials, fit_ret>>
    /\ UNCHANGED loaderVars

\* one iteration of the delay loop, minimize returning res
FitTrial ==
    /\ fit_pc = "loop"
    /\ idx < Len(delay_vals)
    /\ LET delay == At(delay_vals, idx)
           t_sim == SensorTime(sensor_rpm)
           m == DelayedMassFlow(sensor_m_dot, t_sim, delay)
       IN  \E res \in MinimizeResults(simulator, t_sim, N_target, mask, m,
                                      BoundsOf(fit_args), x0) :
             LET better == ScoreLess(res.fun, best_global_score)
                 score == IF better THEN res.fun ELSE best_global_score
             IN  /\ best_global_score' = score
                 /\ best_global_params' =
                      IF better
                      THEN [ A_eff_mm2 |-> M2ToMm2(res.x[1]),
                             eta_ad    |-> res.x[2],
                             delay     |-> delay,
                             rmse      |-> res.fun ]
                      ELSE best_global_params
                 /\ x0' = IF better THEN res.x ELSE x0
                 /\ trials' = Append(trials,
                                [ delay |-> delay, m_dot_kg_s |-> m,
                                  x0 |-> x0, x |-> res.x, fun |-> res.fun,
                                  best |-> score ])
    /\ idx' = idx + 1
    /\ UNCHANGED <<simVars, sensorVars, procVars, base_config, simulator,
                   fit_args, N_target, mask, delay_vals, fit_error, fit_ret,
                   fit_pc>>
    /\ UNCHANGED loaderVars

\* one iteration of the delay loop, minimize raising: nothing in the loop
\* catches the exception, which leaves fit
FitTrialRaises ==
    /\ fit_pc = "loop"
    /\ idx < Len(delay_vals)
    /\ fit_error' = "minimize"
    /\ fit_pc' = "raised"
    /\ UNCHANGED <<simVars, sensorVars, procVars, base_config, simulator,
                   fit_args, N_target, mask, x0, delay_vals, idx,
                   best_global_score, best_global_params, trials, fit_ret>>
    /\ UNCHANGED loaderVars

\* after the loop: the best parameters go to the local simulator, the dict
\* is returned
FitFinish ==
    /\ fit_pc = "loop"
    /\ idx >= Len(delay_vals)
    /\ simulator' =
          IF best_global_params # EmptyDict
          THEN UpdateParams(simulator,
                            Some(Mm2ToM2(best_global_params.A_eff_mm2)),
                            Some(best_global_params.eta_ad),
                            Some(best_global_params.delay))
          ELSE simulator
    /\ fit_ret' = best_global_params
    /\ fit_pc' = "done"
    /\ UNCHANGED <<simVars, sensorVars, procVars, base_config,
                   fit_args, N_target, mask, x0, delay_vals, idx,
                   best_global_score, best_global_params, trials, fit_error>>
    /\ UNCHANGED loaderVars

InitFit ==
    /\ config \in FitConfigs
    /\ sim = NoSim
    /\ NoRun
    /\ sensor_m_dot \in MdotSensors
    /\ sensor_rpm \in FitRpmSensors
    /\ NoProcess
    /\ NoOptimizer
    /\ NoLoader

NextFit ==
    NewOptimizer \/ FitStart \/ FitTrial \/ FitTrialRaises \/ FitFinish

SpecFit == InitFit /\ [][NextFit]_vars

-----------------------------------------------------------------------------
(* A caller's session: a simulator of its own, get_target_rpm and process  *)
(* calls on it in any number and order, and an optimizer with one fit.     *)

\* the caller lets go of what the last get_target_rpm or process call
\* returned
Forget ==
    /\ proc_pc # "idle"
    /\ proc_locals' = EmptyDict
    /\ results' = EmptyDict
    /\ proc_pc' = "idle"
    /\ UNCHANGED <<simVars, sensorVars, fitVars>>
    /\ UNCHANGED loaderVars

\* a ramp and a plateau with a spike above every limit, in rpm, in Hz and
\* in rad/s
SessionRpmSensors ==
    { [data |-> d, fs |-> 2, unit |-> u, start_time |-> 0] :
        d \in { Arr([k \in 1..NSeries |-> 30 * (k - 1)]),
                Arr([k \in 1..NSeries |-> IF k = 3 THEN 600 ELSE 60]) },
        u \in { <<"r", "p", "m">>, <<"H", "z">>,
                <<"r", "a", "d", "/", "s">> } }

\* two mass-flow samples a second apart, over the first second of the speed
\* series
SessionMdotSensors ==
    { [ data |-> <<2000, 1000>>, fs |-> 1, unit |-> <<"g", "/", "s">>,
        start_time |-> 0 ] }

\* the configs of a fit, with a delay of half a second
SessionConfigs == { WithField(c, "time_delay", 1) : c \in FitConfigs }

InitSession ==
    /\ config \in SessionConfigs
    /\ sim = NoSim
    /\ NoRun
    /\ sensor_m_dot \in SessionMdotSensors
    /\ sensor_rpm \in SessionRpmSensors
    /\ NoProcess
    /\ NoOptimizer
    /\ NoLoader

NextSession ==
    \/ Construct \/ GetTarget \/ Process \/ Forget
    \/ NewOptimizer \/ FitStart \/ FitTrial \/ FitTrialRaises \/ FitFinish

SpecSession == InitSession /\ [][NextSession]_vars

-----------------------------------------------------------------------------
(* _run_simulation_fast over the IEEE floats: the call with a zero area or *)
(* a zero density.  1.0 / x for x = 0 raises ZeroDivisionError when x is a *)
(* Python float (self.rho * self.A of process) and is inf when x is a      *)
(* numpy float64 (self.rho * x[0] of the objective of fit).                *)

NegInf == <<-1, 0>>

\* the sign of a float that is not NaN
FSign(a) ==
    IF IsFin(a) THEN (IF a[1] > 0 THEN 1 ELSE IF a[1] < 0 THEN -1 ELSE 0)
    ELSE a[1]

\* the infinite float of a sign; inf * 0 is NaN
FInfOfSign(sgn) == IF sgn > 0 THEN Inf ELSE IF sgn < 0 THEN NegInf ELSE NaN

\* a * b
FMul(a, b) ==
    IF a = NaN \/ b = NaN THEN NaN
    ELSE IF IsFin(a) /\ IsFin(b) THEN Fin(a[1] * b[1])
    ELSE FInfOfSign(FSign(a) * FSign(b))

\* a + b
FAdd(a, b) ==
    IF a = NaN \/ b = NaN THEN NaN
    ELSE IF IsFin(a) /\ IsFin(b) THEN Fin(a[1] + b[1])
    ELSE IF IsFin(a) THEN b
    ELSE IF IsFin(b) THEN a
    ELSE IF a = b THEN a ELSE NaN

\* a - b
FSub(a, b) ==
    FAdd(a, IF b = NaN THEN NaN
            ELSE IF IsFin(b) THEN Fin(0 - b[1])
            ELSE FInfOfSign(0 - FSign(b)))

\* np.sqrt(a)
FSqrt(a) ==
    IF a = NaN THEN NaN
    ELSE IF IsFin(a) THEN (IF a[1] < 0 THEN NaN ELSE Fin(Sqrt(a[1])))
    ELSE IF a = Inf THEN Inf ELSE NaN

\* a * (p / 100)
FPct(a, p) ==
    IF a = NaN THEN NaN
    ELSE IF IsFin(a) THEN Fin(Pct(a[1], p))
    ELSE FInfOfSign(FSign(a) * p)

\* a * (1.0 / n), n # 0
FOver(a, n) ==
    IF a = NaN THEN NaN
    ELSE IF IsFin(a) THEN Fin(TDiv(a[1], n))
    ELSE FInfOfSign(FSign(a) * n)

\* a < c for a number c: False on NaN
FLess(a, c) ==
    /\ a # NaN
    /\ IF IsFin(a) THEN a[1] < c ELSE a = NegInf

\* k_v = 1.0 / (self.rho * A_val) with rho * A_val a numpy float64
K_vFloat(s, Av) == IF s.rho * Av = 0 THEN Inf ELSE Fin(K_v(s, Av))

\* T_fluid of the expanded velocity triangle, over the floats
T_fluidFloat(s, m_curr, omega, Av, ev) ==
    LET cos_alpha == CosPct(s.alpha_deg)
        sin_alpha == SinPct(s.alpha_deg)
        cos_beta2 == CosPct(s.beta2_deg)
        V2        == FMul(Fin(m_curr), K_vFloat(s, Av))
        V_theta2  == FPct(V2, cos_alpha)
        U         == FMul(Fin(s.r), omega)
        W_theta2  == FSub(V_theta2, U)
        W_axial2  == FPct(V2, sin_alpha)
        W2_mag    == FSqrt(FAdd(FMul(W_theta2, W_theta2),
                                FMul(W_axial2, W_axial2)))
        V_theta3  == FSub(U, FPct(W2_mag, cos_beta2))
    IN  FPct(FMul(Fin(m_curr * s.r), FSub(V_theta2, V_theta3)), ev)

\* the loss torque over the floats
T_lossFloat(s, omega) ==
    IF FLess(omega, RestThreshold) THEN Fin(0)
    ELSE FAdd(Fin(s.loss_A), FMul(Fin(s.loss_B), omega))

\* one iteration of the loop over the floats
LoopStepFloat(s, tg, m, Av, ev, k, st) ==
    LET dt == At(tg, k + 1) - At(tg, k)
    IN  IF dt <= 0 THEN st
        ELSE LET net_torque ==
                     FSub(T_fluidFloat(s, At(m, k), st.omega, Av, ev),
                          T_lossFloat(s, st.omega))
                 upd == FAdd(st.omega, FMul(FOver(net_torque, s.I), Fin(dt)))
                 nxt == IF FLess(upd, 0) THEN Fin(0) ELSE upd
             IN  [ omega |-> nxt,
                   arr   |-> [st.arr EXCEPT ![WriteIndex(k) + 1] = nxt] ]

\* omega * to_rpm over the floats
ToRpmFloat(a) == IF IsFin(a) THEN Fin(ToRpm(a[1])) ELSE a

\* the configs with and without a density of zero
ZeroDivConfigs ==
    { [ I |-> 1, r |-> 1, A |-> 1, alpha |-> 29, beta2 |-> 70, rho |-> d,
        loss_coeffs |-> [A |-> l[1], B |-> l[2]] ] :
      d \in {0, 1}, l \in { <<0, 0>>, <<40, 1>> } }

\* the time grid of these calls: half a second a sample
ZeroDivGrid == Arr([k \in 1..NSamples |-> k - 1])

\* entry of _run_simulation_fast with an area that may be 0, of either
\* number type, up to the loop
RunStartFloat ==
    /\ sim.built
    /\ run_pc = "idle"
    /\ \E m \in MdotSeqs(NSamples), Av \in {0, 1}, ev \in {0, 80},
          number \in {"float", "float64"} :
          /\ t' = ZeroDivGrid
          /\ m_dot_kg_s' = m
          /\ A_val' = Av
          /\ eta_val' = ev
          /\ IF sim.rho * Av = 0 /\ number = "float"
             THEN /\ run_pc' = "raised"          \* ZeroDivisionError
                  /\ omega_sim' = <<>>
             ELSE /\ run_pc' = "loop"
                  /\ omega_sim' = Arr([k \in 1..NSamples |-> Fin(0)])
    /\ current_omega' = Fin(0)
    /\ i' = 0
    /\ UNCHANGED <<config, sim, N_sim, sensorVars, procVars, fitVars>>
    /\ UNCHANGED loaderVars

\* one iteration of the loop
SimStepFloat ==
    /\ run_pc = "loop"
    /\ i < Len(t) - 1
    /\ LET st == LoopStepFloat(sim, t, m_dot_kg_s, A_val, eta_val, i,
                               [omega |-> current_omega, arr |-> omega_sim])
       IN  /\ current_omega' = st.omega
           /\ omega_sim' = st.arr
    /\ i' = i + 1
    /\ UNCHANGED <<config, sim, t, m_dot_kg_s, A_val, eta_val, run_pc, N_sim,
                   sensorVars, procVars, fitVars>>
    /\ UNCHANGED loaderVars

\* return omega_sim * to_rpm
RunReturnFloat ==
    /\ run_pc = "loop"
    /\ i >= Len(t) - 1
    /\ N_sim' = Arr([k \in 1..Len(omega_sim) |-> ToRpmFloat(omega_sim[k])])
    /\ run_pc' = "returned"
    /\ UNCHANGED <<config, sim, t, m_dot_kg_s, A_val, eta_val, omega_sim,
                   current_omega, i, sensorVars, procVars, fitVars>>
    /\ UNCHANGED loaderVars

InitZeroDiv ==
    /\ config \in ZeroDivConfigs
    /\ sim = NoSim
    /\ NoRun
    /\ NoSensors
    /\ NoProcess
    /\ NoOptimizer
    /\ NoLoader

NextZeroDiv == Construct \/ RunStartFloat \/ SimStepFloat \/ RunReturnFloat

SpecZeroDiv == InitZeroDiv /\ [][NextZeroDiv]_vars

-----------------------------------------------------------------------------
(* Construction and fit over configs that lack a required key.             *)

\* the dict d without a key
Without(d, key) == [k \in DOMAIN d \ {key} |-> d[k]]

\* a complete config; with the area under 'A_eff'; and the configs that lack
\* one required key, or both loss coefficients, or everything
CompleteConfig ==
    [ I |-> 1, r |-> 1, A |-> 1, alpha |-> 29, beta2 |-> 70, eta_ad |-> 80,
      time_delay |-> 1, loss_coeffs |-> [A |-> 40, B |-> 1] ]

IncompleteConfigs ==
    { Without(CompleteConfig, key) :
        key \in {"I", "r", "A", "alpha", "loss_coeffs"} } \cup
    { [CompleteConfig EXCEPT !.loss_coeffs = Without(@, key)] :
        key \in {"A", "B"} } \cup
    { WithField(Without(CompleteConfig, "I"), "optimization",
                [value_limit_rpm |-> Some(500)]),
      [beta2 |-> 70, eta_ad |-> 80] }

ConstructionConfigs ==
    { CompleteConfig,
      WithField(Without(CompleteConfig, "A"), "A_eff", 1) } \cup
    IncompleteConfigs

InitConstruction ==
    /\ config \in ConstructionConfigs
    /\ sim = NoSim
    /\ NoRun
    /\ sensor_m_dot \in SessionMdotSensors
    /\ sensor_rpm \in SessionRpmSensors
    /\ NoProcess
    /\ NoOptimizer
    /\ NoLoader

SpecConstruction == InitConstruction /\ [][NextSession]_vars

-----------------------------------------------------------------------------
(* _run_simulation_fast on Scenario A, in fine fixed point: mass flow in   *)
(* g/s, lengths in mm, area in mm2, density in g/m3, inertia in g m2,      *)
(* velocities in cm/s, angular velocity in 1e-4 rad/s, time in ms,         *)
(* trigonometric values in 1e-4, efficiency in per cent.                   *)

\* np.sin(np.radians(d)) in 1e-4, 0 <= d <= 180 (Bhaskara's rational form)
SinFine(d) == TDiv(40000 * d * (180 - d), 40500 - d * (180 - d))

\* np.cos(np.radians(d)) in 1e-4
CosFine(d) == SinFine(90 - d)

\* x * (c in 1e-4)
Scaled(x, c) == TDiv(x * c, 10000)

\* k_v = 1.0 / (self.rho * A_val), in m/kg
K_vFine(s, Av) == TDiv(1000000000, s.rho * Av)

\* V_theta2 - V_theta3 of the expanded velocity triangle, in cm/s
VelocityGap(s, m_curr, omega, Av) ==
    LET cos_alpha == CosFine(s.alpha_deg)
        sin_alpha == SinFine(s.alpha_deg)
        cos_beta2 == CosFine(s.beta2_deg)
        V2        == TDiv(m_curr * K_vFine(s, Av), 10)
        V_theta2  == Scaled(V2, cos_alpha)
        U         == TDiv(s.r * omega, 100000)
        W_theta2  == V_theta2 - U
        W_axial2  == Scaled(V2, sin_alpha)
        W2_mag    == Sqrt(W_theta2 * W_theta2 + W_axial2 * W_axial2)
        V_theta3  == U - Scaled(W2_mag, cos_beta2)
    IN  V_theta2 - V_theta3

\* T_fluid = eta_val * m_curr * r * (V_theta2 - V_theta3), in 1e-8 N m
T_fluidFine(s, m_curr, omega, Av, ev) ==
    TDiv(ev * m_curr * s.r, 100) * VelocityGap(s, m_curr, omega, Av)

\* the loss torque, zero below 1e-4 rad/s
T_lossFine(s, omega) ==
    IF omega < 1 THEN 0
    ELSE s.loss_A + s.loss_B * omega

\* current_omega += (net_torque * I_inv) * dt
EulerUpdateFine_DtInSeconds(s, omega, m_curr, dt, Av, ev) ==
    LET net_torque == T_fluidFine(s, m_curr, omega, Av, ev)
                      - T_lossFine(s, omega)
    IN  omega + TDiv(TDiv(net_torque, s.I), 10) * dt
EulerUpdateFine(s, omega, m_curr, dt, Av, ev) ==
    LET net_torque == T_fluidFine(s, m_curr, omega, Av, ev)
                      - T_lossFine(s, omega)
    IN  omega + TDiv(TDiv(net_torque, s.I) * dt, 10000)

\* one iteration of the loop at index k
LoopStepFine(s, tg, m, Av, ev, k, st) ==
    LET dt == At(tg, k + 1) - At(tg, k)
    IN  IF dt <= 0 THEN st
        ELSE LET nxt == ClampOmega(EulerUpdateFine(s, st.omega, At(m, k), dt,
                                                   Av, ev))
             IN  [ omega |-> nxt,
                   arr   |-> [st.arr EXCEPT ![WriteIndex(k) + 1] = nxt] ]

\* omega * to_rpm
ToRpmFine(omega) == TDiv(omega * 6, 6283)

\* Scenario A: the config, and the call's mass flow (g/s), sampling rate
\* (Hz) and duration (s)
ScenarioA ==
    [ config   |-> [ I |-> 1, r |-> 20, A |-> 500, alpha |-> 29, beta2 |-> 20,
                     eta_ad |-> 80, rho |-> 1165,
                     loss_coeffs |-> [A |-> 0, B |-> 0] ],
      m_dot    |-> 50,
      fs       |-> 1000,
      duration |-> 2 ]

\* the samples of the grid: both ends of 0..duration
ScenarioSamples == ScenarioA.fs * ScenarioA.duration + 1

\* entry of _run_simulation_fast with the scenario's arguments, up to the
\* loop
RunStartScenario ==
    /\ sim.built
    /\ run_pc = "idle"
    /\ t' = Arr([k \in 1..ScenarioSamples |-> TDiv((k - 1) * 1000, ScenarioA.fs)])
    /\ m_dot_kg_s' = Arr([k \in 1..ScenarioSamples |-> ScenarioA.m_dot])
    /\ A_val' = sim.A
    /\ eta_val' = sim.eta_ad
    /\ omega_sim' = Zeros(ScenarioSamples)
    /\ current_omega' = 0
    /\ i' = 0
    /\ run_pc' = "loop"
    /\ UNCHANGED <<config, sim, N_sim, sensorVars, procVars, fitVars>>
    /\ UNCHANGED loaderVars

\* the iterations at the indices k .. last - 1
RECURSIVE LoopFineFrom(_, _, _, _, _, _, _, _)
LoopFineFrom(s, tg, m, Av, ev, k, last, st) ==
    IF k >= last THEN st
    ELSE LoopFineFrom(s, tg, m, Av, ev, k + 1, last,
                      LoopStepFine(s, tg, m, Av, ev, k, st))

\* ten iterations of the loop (a hundredth of a second of the scenario), or
\* the ones that remain
SimStepScenario ==
    /\ run_pc = "loop"
    /\ i < Len(t) - 1
    /\ LET last == IF i + 10 < Len(t) - 1 THEN i + 10 ELSE Len(t) - 1
           st == LoopFineFrom(sim, t, m_dot_kg_s, A_val, eta_val, i, last,
                              [omega |-> current_omega, arr |-> omega_sim])
       IN  /\ current_omega' = st.omega
           /\ omega_sim' = st.arr
           /\ i' = last
    /\ UNCHANGED <<config, sim, t, m_dot_kg_s, A_val, eta_val, run_pc, N_sim,
                   sensorVars, procVars, fitVars>>
    /\ UNCHANGED loaderVars

\* return omega_sim * to_rpm
RunReturnScenario ==
    /\ run_pc = "loop"
    /\ i >= Len(t) - 1
    /\ N_sim' = Arr([k \in 1..Len(omega_sim) |-> ToRpmFine(omega_sim[k])])
    /\ run_pc' = "returned"
    /\ UNCHANGED <<config, sim, t, m_dot_kg_s, A_val, eta_val, omega_sim,
                   current_omega, i, sensorVars, procVars, fitVars>>
    /\ UNCHANGED loaderVars

InitScenarioA ==
    /\ config = ScenarioA.config
    /\ sim = NoSim
    /\ NoRun
    /\ NoSensors
    /\ NoProcess
    /\ NoOptimizer
    /\ NoLoader

NextScenarioA ==
    Construct \/ RunStartScenario \/ SimStepScenario \/ RunReturnScenario

SpecScenarioA == InitScenarioA /\ [][NextScenarioA]_vars

-----------------------------------------------------------------------------
(* The two fluid-torque computations side by side: the inline one of       *)
(* _run_simulation_fast with A_val = self.A and eta_val = self.eta_ad, and *)
(* _calc_fluid_torque, on the same mass flow and angular velocity.  The    *)
(* first multiplies by the precomputed k_v = 1.0 / (rho * A), the second   *)
(* divides by rho * A: the model rounds each where the code rounds it.     *)

\* the configs of the comparison: areas whose reciprocal is and is not
\* exact, two efficiencies
TorqueConfigs ==
    { [ I |-> 1, r |-> 1, A |-> a, alpha |-> 29, beta2 |-> 70, eta_ad |-> e,
        loss_coeffs |-> [A |-> 0, B |-> 0] ] :
      a \in {1, 2, 3}, e \in {80, 100} }

\* the mass flows and angular velocities compared
TorqueFlows == {-1, 0, 1, 2, 3}
TorqueOmegas == {0, 1, 5, 50, 200, 600}

\* both computations on one input
CompareTorque ==
    /\ sim.built
    /\ proc_pc = "idle"
    /\ \E m_dot \in TorqueFlows, omega \in TorqueOmegas :
          results' =
             [ m_dot   |-> m_dot,
               omega   |-> omega,
               T_fluid |-> T_fluid(sim, m_dot, omega, sim.A, sim.eta_ad),
               T_calc  |-> CalcFluidTorque(sim, omega, m_dot) ]
    /\ proc_locals' = EmptyDict
    /\ proc_pc' = "returned"
    /\ UNCHANGED <<simVars, sensorVars, fitVars>>
    /\ UNCHANGED loaderVars

InitTorque ==
    /\ config \in TorqueConfigs
    /\ sim = NoSim
    /\ NoRun
    /\ NoSensors
    /\ NoProcess
    /\ NoOptimizer
    /\ NoLoader

NextTorque == Construct \/ CompareTorque \/ Forget

SpecTorque == InitTorque /\ [][NextTorque]_vars

-----------------------------------------------------------------------------
(* DataLoader.load_shot_data (src/lib/loader.py) with one CSV source, no   *)
(* HSC or STFT file and no pre- or post-processing.  The content of the    *)
(* CSV is the count of its rewrites; a conversion cache holds the content  *)
(* it was converted from, a derived-channel cache the raw data and the     *)
(* 'derived_channels' configuration it was computed from (0 is the empty   *)
(* configuration).                                                         *)

\* most rewrites of the CSV
MaxWrites == 2

\* the 'derived_channels' configurations a call is made with
DerivedConfigs == {0, 1, 2}

\* _is_cache_valid(source, cache)
IsCacheValid(source, cache) ==
    IF ~cache.exists THEN FALSE
    ELSE source.mtime < cache.mtime

\* physics.add_derived_channels(data_store, derived): the channels computed
\* from the data and the configuration
AddDerivedChannels(raw, derived) == [data |-> raw, cfg |-> derived]

\* the CSV is rewritten by the measurement
WriteCsv ==
    /\ csv_file # EmptyDict
    /\ csv_file.content < MaxWrites
    /\ csv_file' = [mtime |-> clock, content |-> csv_file.content + 1]
    /\ clock' = clock + 1
    /\ UNCHANGED <<raw_cache, derived_cache, load_args, data_store, load_pc>>
    /\ UNCHANGED <<simVars, sensorVars, procVars, fitVars>>

\* load_shot_data(spec_config, force_reload).  Without a valid conversion
\* cache the call goes to converter.process with the keyword
\* default_start_time, which DataConverter.process does not take: TypeError.
LoadShotData ==
    /\ csv_file # EmptyDict
    /\ \E force_reload \in BOOLEAN, derived \in DerivedConfigs :
         LET cached == ~force_reload /\ IsCacheValid(csv_file, raw_cache)
             loaded_dict == raw_cache.content
             use_derived_cache == ~force_reload /\ derived_cache.exists
             derived_data ==
                 IF use_derived_cache THEN derived_cache.content
                 ELSE AddDerivedChannels(loaded_dict, derived)
         IN  /\ load_args' = [force_reload |-> force_reload,
                              derived |-> derived]
             /\ IF ~cached
                THEN /\ load_pc' = "raised"
                     /\ data_store' = EmptyDict
                     /\ UNCHANGED derived_cache
                ELSE /\ load_pc' = "returned"
                     /\ IF derived = 0
                        THEN /\ data_store' = [raw |-> loaded_dict]
                             /\ UNCHANGED derived_cache
                        ELSE /\ data_store' = [raw |-> loaded_dict,
                                               derived |-> derived_data]
                             /\ derived_cache' =
                                  IF use_derived_cache THEN derived_cache
                                  ELSE [exists |-> TRUE,
                                        content |-> derived_data]
    /\ UNCHANGED <<csv_file, raw_cache, clock>>
    /\ UNCHANGED <<simVars, sensorVars, procVars, fitVars>>

\* a conversion cache of the current CSV, written after it or within the
\* same tick of the file system's time, or none; no derived cache or one of
\* an earlier call
InitLoader ==
    /\ config = EmptyDict
    /\ sim = NoSim
    /\ NoRun
    /\ NoSensors
    /\ NoProcess
    /\ NoOptimizer
    /\ csv_file = [mtime |-> 0, content |-> 0]
    /\ raw_cache \in { [exists |-> FALSE, mtime |-> 0, content |-> 0],
                       [exists |-> TRUE, mtime |-> 0, content |-> 0],
                       [exists |-> TRUE, mtime |-> 1, content |-> 0] }
    /\ derived_cache \in
          { [exists |-> FALSE, content |-> EmptyDict] } \cup
          { [exists |-> TRUE, content |-> AddDerivedChannels(0, d)] :
              d \in DerivedConfigs \ {0} }
    /\ clock = 2
    /\ load_args = EmptyDict
    /\ data_store = EmptyDict
    /\ load_pc = "idle"

NextLoader == WriteCsv \/ LoadShotData

SpecLoader == InitLoader /\ [][NextLoader]_vars

-----------------------------------------------------------------------------
(* Properties of the integrator (SpecSim) and of the construction          *)
(* (SpecParams).                                                           *)

\* the time step of (0-based) sample pair (k, k+1)
DtAt(k) == At(t, k + 1) - At(t, k)

\* C1 (cold start): from the entry of _run_simulation_fast on, the first
\* sample of the angular-velocity array is exactly 0, and so is the first
\* sample of the returned rpm array, whatever the inputs are.
C1_ColdStart ==
    /\ run_pc # "idle" => At(omega_sim, 0) = 0
    /\ run_pc = "returned" => At(N_sim, 0) = 0

\* a returned run whose flow is nonzero from the first sample on and whose
\* rotor has spun up: the first sample is 0 all the same
C1_Witness ==
    /\ run_pc = "returned"
    /\ At(m_dot_kg_s, 0) > 0
    /\ At(N_sim, 1) > 0
    /\ At(N_sim, 0) = 0

\* C2 (non-negativity): after every step every sample of the simulated
\* angular velocity (the array, the running value, the returned rpm) is
\* >= 0, and a step whose Euler update is negative leaves exactly 0.
C2_NonNegative ==
    [][ /\ \A k \in DOMAIN omega_sim' : omega_sim'[k] >= 0
        /\ current_omega' >= 0
        /\ \A k \in DOMAIN N_sim' : N_sim'[k] >= 0
        /\ ( /\ SimStep
             /\ DtAt(i) > 0
             /\ EulerUpdate(sim, current_omega, At(m_dot_kg_s, i), DtAt(i),
                            A_val, eta_val) < 0 )
           => /\ current_omega' = 0
              /\ At(omega_sim', i + 1) = 0 ]_vars

\* a turning rotor whose next Euler update was negative and was stored as 0
C2_Witness ==
    /\ run_pc = "loop"
    /\ \E k \in 1..(Len(t) - 2) :
          /\ k < i
          /\ At(omega_sim, k) > 0
          /\ DtAt(k) > 0
          /\ EulerUpdate(sim, At(omega_sim, k), At(m_dot_kg_s, k), DtAt(k),
                         A_val, eta_val) < 0
          /\ At(omega_sim, k + 1) = 0

\* C3 (rest under zero forcing): if mass-flow samples 0..k are all 0 then
\* the angular velocity at samples 0..k+1 is exactly 0 (and the running
\* value is 0 as long as only such samples were consumed), for every loss
\* coefficient pair.
C3_RestUnderZeroForcing ==
    run_pc # "idle" =>
      /\ \A k \in 0..(Len(t) - 2) :
            (\A j \in 0..k : At(m_dot_kg_s, j) = 0)
            => \A j \in 0..(k + 1) : At(omega_sim, j) = 0
      /\ (\A j \in 0..(i - 1) : At(m_dot_kg_s, j) = 0) => current_omega = 0

\* flow that is zero for the first two samples and sets in afterwards, under
\* nonzero loss coefficients: the rotor rests, then turns
C3_Witness ==
    /\ run_pc = "returned"
    /\ sim.loss_A # 0
    /\ \A k \in 0..(Len(t) - 2) : DtAt(k) > 0
    /\ At(m_dot_kg_s, 0) = 0 /\ At(m_dot_kg_s, 1) = 0
    /\ At(m_dot_kg_s, 2) > 0
    /\ \A j \in 0..2 : At(omega_sim, j) = 0
    /\ At(omega_sim, 3) > 0

\* C4 (rotor exit angle convention): the constructed simulator holds
\* 90 - input for a raw angle above 45 degrees and the input itself
\* otherwise: 70 gives 20, 20 stays 20, 45 stays 45 (no angle given is 70).
C4_Beta2Convention ==
    sim.built =>
      LET raw == Get(config, "beta2", 70)
      IN  /\ raw > 45 => sim.beta2_deg = 90 - raw
          /\ raw <= 45 => sim.beta2_deg = raw
          /\ raw = 70 => sim.beta2_deg = 20
          /\ raw = 20 => sim.beta2_deg = 20
          /\ raw = 45 => sim.beta2_deg = 45

\* a simulator built from the axis-referenced 70 degrees
C4_Witness ==
    /\ sim.built
    /\ "beta2" \in DOMAIN config
    /\ config.beta2 = 70
    /\ sim.beta2_deg = 20


-----------------------------------------------------------------------------
(* Properties of process (SpecProc).                                       *)

\* C5 (diagnostic rest gating): in what process computes, at every sample
\* whose filtered (not Gaussian-smoothed) experimental rpm is below 10 the
\* loss torque and the returned actual torque are exactly 0.
C5_RestGating ==
    proc_pc = "returned" =>
      \A k \in 1..Len(results.N_exp_filtered) :
          results.N_exp_filtered[k] < 10
          => /\ proc_locals.T_loss_exp[k] = 0
             /\ results.T_actual[k] = Fin(0)

\* a sample below 10 rpm where the differentiated speed is not zero (the
\* torque of the equation of motion would not be 0), next to a rotating
\* sample with a nonzero torque
C5_Witness ==
    /\ proc_pc = "returned"
    /\ \E k \in 1..Len(results.N_exp_filtered) :
          /\ results.N_exp_filtered[k] < 10
          /\ results.N_exp_filtered[k] > 0
          /\ IsFin(proc_locals.d_omega_dt[k])
          /\ proc_locals.d_omega_dt[k] # Fin(0)
          /\ results.T_actual[k] = Fin(0)
    /\ \E k \in 1..Len(results.N_exp_filtered) :
          /\ results.N_exp_filtered[k] > 10
          /\ results.T_actual[k] # Fin(0)

-----------------------------------------------------------------------------
(* Properties of TurbineOptimizer.fit (SpecFit).                           *)

\* C6: the first delay trial starts minimize at the midpoints of the area
\* and efficiency bounds, and every later trial starts at the optimum the
\* trial just before it returned, whether or not that trial improved the
\* global best.
C6_WarmStart ==
    \A k \in 1..Len(trials) :
        trials[k].x0 = IF k = 1 THEN Midpoints(BoundsOf(fit_args))
                       ELSE trials[k - 1].x

\* the trials with a score that is a number
FiniteTrials == { k \in 1..Len(trials) : IsFin(trials[k].fun) }

\* the earliest of the trials with the smallest score
EarliestMinimum ==
    CHOOSE k \in FiniteTrials :
        \A j \in FiniteTrials :
            \/ trials[k].fun[1] < trials[j].fun[1]
            \/ trials[k].fun[1] = trials[j].fun[1] /\ k <= j

\* what fit returns once every delay has been tried: the record of the
\* earliest trial with the smallest score
ReturnsEarliestMinimum ==
    fit_pc = "done" =>
        /\ Len(trials) = Len(delay_vals)
        /\ \A k \in 1..Len(trials) : trials[k].delay = delay_vals[k]
        /\ IF FiniteTrials = {} THEN fit_ret = EmptyDict
           ELSE LET best == trials[EarliestMinimum]
                IN  fit_ret = [ A_eff_mm2 |-> M2ToMm2(best.x[1]),
                                eta_ad    |-> best.x[2],
                                delay     |-> best.delay,
                                rmse      |-> best.fun ]

\* a step of the loop never raises the best score
BestNeverIncreases ==
    fit_pc = "loop" =>
        \/ best_global_score = Inf
        \/ /\ IsFin(best_global_score')
           /\ best_global_score'[1] <= best_global_score[1]

\* C7: when fit finishes, the returned rmse is the smallest score of all
\* delay trials and the returned area, efficiency and delay are those of the
\* earliest trial with that score; from trial to trial the best score so far
\* never increases.
C7_GlobalBest == [](ReturnsEarliestMinimum) /\ [][BestNeverIncreases]_vars

\* fit has finished on a tie: two trials share the smallest score, and the
\* earlier one is returned
C7_Witness ==
    /\ fit_pc = "done"
    /\ \E j, k \in FiniteTrials :
         /\ j < k
         /\ trials[j].fun = trials[k].fun
         /\ trials[j].x # trials[k].x
         /\ \A l \in FiniteTrials : trials[j].fun[1] <= trials[l].fun[1]
         /\ fit_ret.delay = trials[j].delay
         /\ fit_ret.eta_ad = trials[j].x[2]

\* C8: after fit has returned a best-parameter record, the configuration the
\* optimizer shares with its caller holds the best area, efficiency and
\* delay: a simulator built from it runs with the fitted values.
C8_Finalization ==
    (fit_pc = "done" /\ fit_ret # EmptyDict) =>
        LET s == LoadParams(base_config)
        IN  /\ s.A = Mm2ToM2(fit_ret.A_eff_mm2)
            /\ s.eta_ad = fit_ret.eta_ad
            /\ s.time_delay = fit_ret.delay

\* C9: a delay trial whose minimize call raises does not end the search:
\* fit goes on with the remaining delays.
C9_FailureIsolation ==
    fit_error = "minimize" => fit_pc \in {"loop", "done"}

\* the mask selects no sample
EmptyMask == \A k \in 1..Len(mask) : ~mask[k]

\* C10: when the mask selects no sample, no delay trial is accepted as the
\* best and fit returns no best-parameter record (the empty dict, with "No
\* optimal parameters found."); the simulator keeps the parameters of the
\* config.
C10_EmptyMask ==
    (fit_pc \in {"loop", "done"} /\ EmptyMask) =>
        /\ \A k \in 1..Len(trials) : trials[k].fun = NaN
        /\ best_global_score = Inf
        /\ best_global_params = EmptyDict
        /\ fit_pc = "done" =>
               fit_ret = EmptyDict /\ simulator = LoadParams(base_config)

\* fit has finished after MaxTrials trials over an empty mask
C10_Witness ==
    /\ fit_pc = "done"
    /\ EmptyMask
    /\ Len(mask) = NSeries
    /\ Len(trials) = MaxTrials

-----------------------------------------------------------------------------
(* Properties of the call with a zero area or density (SpecZeroDiv).       *)

\* C11: with an area or a density of 0 the division of the integrator is
\* guarded: the call fails with an error or clips the divisor, and no
\* infinite or NaN value reaches the simulated angular velocity.
C11_DivisionGuard ==
    run_pc \in {"loop", "returned"} =>
        /\ IsFin(current_omega)
        /\ \A k \in 1..Len(omega_sim) : IsFin(omega_sim[k])
        /\ \A k \in 1..Len(N_sim) : IsFin(N_sim[k])

-----------------------------------------------------------------------------
(* Properties of get_target_rpm (SpecTarget).                              *)

\* C12: for a series of any length N >= 1 get_target_rpm chooses a median
\* window and a smoothing window that are odd and no longer than N, the
\* smoothing window longer than the polynomial degree 3, and does not raise.
C12_WindowShrinking ==
    proc_pc # "idle" =>
        LET n == Len(sensor_rpm.data)
        IN  /\ proc_locals.safe_med_win % 2 = 1
            /\ proc_locals.safe_med_win <= n
            /\ proc_locals.sg_win % 2 = 1
            /\ proc_locals.sg_win <= n
            /\ proc_locals.sg_win > 3
            /\ proc_pc # "raised"

\* the samples of the converted series that are no outliers
ValidSamples ==
    { k \in 1..Len(proc_locals.N_converted) :
        proc_locals.N_converted[k] <= sim.value_limit_rpm[1] }

\* the value the claim gives sample k of the series after the outlier step
ExpectedAfterOutliers(k) ==
    LET a == proc_locals.N_converted
        before == { j \in ValidSamples : j < k }
        after == { j \in ValidSamples : j > k }
        l == CHOOSE j \in before : \A h \in before : h <= j
        r == CHOOSE j \in after : \A h \in after : j <= h
    IN  IF k \in ValidSamples THEN a[k]
        ELSE IF ValidSamples = {} THEN 0
        ELSE IF before = {} THEN a[r]
        ELSE IF after = {} THEN a[l]
        ELSE a[l] + TDiv(a[r] - a[l], r - l) * (k - l)

\* C13: with a limit configured, every sample above the limit is replaced by
\* the linear interpolation by index between its nearest non-outlier
\* neighbours (the nearest one at the ends), every other sample is
\* unchanged, the series is all 0 when every sample is an outlier, and no
\* sample is above a non-negative limit afterwards.
C13_OutlierRemoval ==
    (proc_pc # "idle" /\ sim.value_limit_rpm # None) =>
        /\ \A k \in 1..Len(proc_locals.N_rpm) :
               proc_locals.N_rpm[k] = ExpectedAfterOutliers(k)
        /\ sim.value_limit_rpm[1] >= 0 =>
               \A k \in 1..Len(proc_locals.N_rpm) :
                   proc_locals.N_rpm[k] <= sim.value_limit_rpm[1]

\* an outlier between two different valid neighbours has been replaced by a
\* value between them
C13_Witness ==
    /\ proc_pc # "idle"
    /\ sim.value_limit_rpm # None
    /\ \E k \in 2..(Len(proc_locals.N_rpm) - 1) :
         /\ k \notin ValidSamples
         /\ k - 1 \in ValidSamples
         /\ k + 1 \in ValidSamples
         /\ proc_locals.N_converted[k - 1] < proc_locals.N_rpm[k]
         /\ proc_locals.N_rpm[k] < proc_locals.N_converted[k + 1]

\* C14: the raw speed is multiplied by 60 when the lower-cased unit string
\* contains 'hz', left unchanged when it contains 'rpm' and not 'hz', and
\* multiplied by 60 for every other unit string.  Of the unit strings here
\* only rpm and RPM contain 'rpm' and not 'hz'.
C14_TargetUnitPolicy ==
    proc_pc # "idle" =>
        \A k \in 1..Len(sensor_rpm.data) :
            proc_locals.N_converted[k] =
                IF sensor_rpm.unit \in { <<"r", "p", "m">>, <<"R", "P", "M">> }
                THEN sensor_rpm.data[k]
                ELSE sensor_rpm.data[k] * 60

\* a nonzero speed in a unit that names both rpm and Hz has been converted
C14_Witness ==
    /\ proc_pc # "idle"
    /\ sensor_rpm.unit = <<"r", "p", "m", "/", "H", "z">>
    /\ \E k \in 1..Len(sensor_rpm.data) :
         /\ sensor_rpm.data[k] = 100
         /\ proc_locals.N_converted[k] = 6000

\* C15: the delays fit tries are delay_min, delay_min + step, ... in
\* increasing order, delay_max among them (as the last) whenever delay_max -
\* delay_min is a whole multiple of the step, and exactly one when delay_min
\* = delay_max.
C15_DelayGrid ==
    fit_pc \in {"loop", "done"} =>
        LET d0 == fit_args.delay_range[1]
            d1 == fit_args.delay_range[2]
            step == fit_args.delay_range[3]
            n == Len(delay_vals)
        IN  /\ \A k \in 1..n : delay_vals[k] = d0 + (k - 1) * step
            /\ (d1 - d0) % step = 0 => n >= 1 /\ delay_vals[n] = d1
            /\ d0 = d1 => n = 1
            /\ \A k \in 1..Len(trials) : trials[k].delay = delay_vals[k]
            /\ fit_pc = "done" => Len(trials) = n

\* fit has tried the delays 0.5 s and 1.5 s of the range (0.5, 1.5, 1.0)
C15_Witness ==
    /\ fit_pc = "done"
    /\ fit_args.delay_range = <<1, 3, 2>>
    /\ Len(trials) = 2
    /\ trials[1].delay = 1
    /\ trials[2].delay = 3

-----------------------------------------------------------------------------
(* Properties of a session (SpecSession).                                  *)

\* the time of (1-based) sample k of a series, in half-seconds
SampleTime(sd, k) == TDiv(2 * (k - 1), sd.fs) + sd.start_time

\* the mass flow in kg/s the claim gives a query time tq: the line through
\* the two source samples around tq, 0 outside the source's time range
ExpectedFlow(tq) ==
    LET n == Len(sensor_m_dot.data)
        d == sensor_m_dot.data
        T(k) == SampleTime(sensor_m_dot, k)
    IN  IF tq < T(1) \/ tq > T(n) THEN 0
        ELSE IF tq = T(n) THEN TDiv(d[n], 1000)
        ELSE LET j == CHOOSE j \in 1..(n - 1) : T(j) <= tq /\ tq < T(j + 1)
             IN  TDiv(d[j] + TDiv(d[j + 1] - d[j], T(j + 1) - T(j))
                                 * (tq - T(j)), 1000)

\* C16: for a delay d the mass flow used at speed-grid time t is the linear
\* interpolation of the source series at t - d, and 0 when t - d is before
\* the first or after the last source sample; in the fit loop and in process.
C16_DelayedResampling ==
    /\ \A j \in 1..Len(trials) :
           \A k \in 1..Len(sensor_rpm.data) :
               trials[j].m_dot_kg_s[k] =
                   ExpectedFlow(SampleTime(sensor_rpm, k) - trials[j].delay)
    /\ (proc_pc = "returned" /\ "m_dot_kg" \in DOMAIN results) =>
           \A k \in 1..Len(sensor_rpm.data) :
               results.m_dot_kg[k] =
                   ExpectedFlow(SampleTime(sensor_rpm, k) - sim.time_delay)

\* the flow at query time tq is taken from inside the source's range
InsideSource(tq) ==
    /\ tq >= SampleTime(sensor_m_dot, 1)
    /\ tq <= SampleTime(sensor_m_dot, Len(sensor_m_dot.data))

\* process and two fit trials have resampled the flow, each with query
\* times before, inside and after the source's range
C16_Witness ==
    /\ proc_pc = "returned"
    /\ "m_dot_kg" \in DOMAIN results
    /\ Len(trials) >= 2
    /\ \A d \in {sim.time_delay, trials[2].delay} :
         /\ \E k \in 1..Len(sensor_rpm.data) :
              SampleTime(sensor_rpm, k) - d < SampleTime(sensor_m_dot, 1)
         /\ \E k \in 1..Len(sensor_rpm.data) :
              SampleTime(sensor_rpm, k) - d >
                  SampleTime(sensor_m_dot, Len(sensor_m_dot.data))
         /\ \E k \in 1..Len(sensor_rpm.data) :
              /\ InsideSource(SampleTime(sensor_rpm, k) - d)
              /\ ExpectedFlow(SampleTime(sensor_rpm, k) - d) > 0

\* C17: no get_target_rpm, fit or process call changes the data array or a
\* field of the mass-flow or the rotational-speed SensorData it is given.
C17_InputImmutability ==
    [][sensor_rpm' = sensor_rpm /\ sensor_m_dot' = sensor_m_dot]_vars

\* the samples above the limit a simulator removes from the series in rpm
OutliersOf(s) ==
    { k \in 1..Len(sensor_rpm.data) :
        s.value_limit_rpm # None /\ sensor_rpm.data[k] > s.value_limit_rpm[1] }

\* a fit and a process call, both with a limit, have returned on a series in
\* rpm with an outlier, which both overwrote in their working array
C17_Witness ==
    /\ fit_pc = "done"
    /\ proc_pc = "returned"
    /\ "N_exp_filtered" \in DOMAIN results
    /\ sensor_rpm.unit = <<"r", "p", "m">>
    /\ OutliersOf(sim) # {}
    /\ OutliersOf(simulator) # {}

-----------------------------------------------------------------------------
(* Properties of the configuration (SpecFit, SpecParams).                  *)

\* C18: a fit call changes no configuration state other than area,
\* efficiency and delay: the caller's config dict, its nested 'optimization'
\* map included, and the outlier limit configured in the optimizer are
\* after the call what they were before it.
C18_ConfigFrame ==
    [][ /\ config' = config
        /\ base_config # EmptyDict =>
               ValueLimitOf(base_config') = ValueLimitOf(base_config) ]_vars

\* the config lacks I, r, the area (A and A_eff), alpha, or a loss
\* coefficient
LacksRequired(c) ==
    \/ \E key \in {"I", "r", "alpha", "loss_coeffs"} : key \notin DOMAIN c
    \/ {"A", "A_eff"} \cap DOMAIN c = {}
    \/ \E key \in {"A", "B"} : key \notin DOMAIN Get(c, "loss_coeffs", EmptyDict)

\* no filtering, simulation or optimization step has run
NothingComputed ==
    /\ proc_pc = "idle"
    /\ results = EmptyDict
    /\ N_target = <<>>
    /\ mask = <<>>
    /\ trials = <<>>
    /\ idx = 0
    /\ fit_ret = EmptyDict

\* C19: with a config that lacks I, r, the area, alpha or a loss coefficient
\* no simulator ever exists, neither the caller's nor the one fit builds;
\* a started fit has failed on the config, and no filtering, simulation or
\* optimization step has run.  A simulator that exists holds the required
\* values of its config, never a default.
C19_ConfigErrorsFatal ==
    /\ LacksRequired(config) =>
          /\ ~sim.built
          /\ ~simulator.built
          /\ fit_pc \in {"idle", "raised"}
          /\ fit_pc = "raised" => fit_error = "config"
          /\ NothingComputed
    /\ sim.built =>
          /\ sim.I = config.I
          /\ sim.r = config.r
          /\ sim.A = Get(config, "A_eff", Get(config, "A", 0))
          /\ sim.alpha_deg = config.alpha
          /\ sim.loss_A = config.loss_coeffs.A
          /\ sim.loss_B = config.loss_coeffs.B

\* a config without a required key, after the construction and the fit
\* were both tried and both raised
C19_Witness ==
    /\ LacksRequired(config)
    /\ "error" \in DOMAIN sim
    /\ fit_pc = "raised"
    /\ fit_error = "config"
    /\ "error" \in DOMAIN simulator

-----------------------------------------------------------------------------
(* Properties of Scenario A (SpecScenarioA).                               *)

\* the least angular velocity in lo..hi at which the fluid torque of the
\* scenario is not positive; the torque falls as the rotor speeds up
RECURSIVE ZeroTorqueFrom(_, _)
ZeroTorqueFrom(lo, hi) ==
    IF lo >= hi THEN lo
    ELSE LET mid == (lo + hi) \div 2
         IN  IF T_fluidFine(sim, ScenarioA.m_dot, mid, sim.A, sim.eta_ad) <= 0
             THEN ZeroTorqueFrom(lo, mid)
             ELSE ZeroTorqueFrom(mid + 1, hi)

\* the steady-state angular velocity, T_fluid(omega_ss) = 0
OmegaSS == ZeroTorqueFrom(0, 100000000)

\* the simulated angular velocity at t = duration
OmegaAtEnd == omega_sim[Len(omega_sim)]

\* the series rises from sample to sample and stays at or below omega_ss
RisesBelowSteadyState ==
    /\ \A k \in 1..(Len(omega_sim) - 1) : omega_sim[k] <= omega_sim[k + 1]
    /\ \A k \in 1..Len(omega_sim) : omega_sim[k] <= OmegaSS

\* C20: in Scenario A the simulated angular velocity is non-decreasing from
\* sample to sample, never exceeds the steady-state value at which the fluid
\* torque is zero, and is within 1% of that value at t = 2 s.
C20_ScenarioA ==
    run_pc = "returned" =>
        /\ RisesBelowSteadyState
        /\ OmegaSS - OmegaAtEnd <= TDiv(OmegaSS, 100)

\* C20, as the integrator has it: in Scenario A the simulated angular
\* velocity is non-decreasing from sample to sample and never exceeds the
\* steady-state value; at t = 2 s it has reached between 2% and 3% of it.
C20_ScenarioA_Amended ==
    run_pc = "returned" =>
        /\ RisesBelowSteadyState
        /\ OmegaAtEnd >= 2 * TDiv(OmegaSS, 100)
        /\ OmegaAtEnd <= 3 * TDiv(OmegaSS, 100)

\* the scenario has run over its whole grid and the rotor turns
C20_Witness ==
    /\ run_pc = "returned"
    /\ Len(omega_sim) = ScenarioSamples
    /\ i = ScenarioSamples - 1
    /\ OmegaAtEnd > 0
    /\ OmegaSS > 0

-----------------------------------------------------------------------------
(* Properties of the single step of the integrator (SpecSim).              *)

\* C21 (Euler step): a step over a sample pair (i, i+1) with dt > 0 makes
\* exactly one update, omega_next = max(omega_i + (T_fluid(mdot_i, omega_i)
\* - T_loss(omega_i)) / I * dt, 0), from the mass flow and the angular
\* velocity at the start of the interval, and moves on to the next pair.
C21_EulerStep ==
    [][ (SimStep /\ DtAt(i) > 0) =>
          LET mdot_i  == At(m_dot_kg_s, i)
              omega_i == current_omega
              net     == T_fluid(sim, mdot_i, omega_i, A_val, eta_val)
                         - T_loss(sim, omega_i)
              euler   == omega_i + TDiv(net, sim.I) * DtAt(i)
          IN  /\ current_omega' = IF euler > 0 THEN euler ELSE 0
              /\ i' = i + 1 ]_vars

\* a step with dt > 0 between two different mass-flow samples has run, and
\* the flow at the end of the interval would have given another velocity
C21_Witness ==
    /\ run_pc = "loop"
    /\ i >= 1
    /\ DtAt(i - 1) > 0
    /\ At(m_dot_kg_s, i - 1) # At(m_dot_kg_s, i)
    /\ current_omega > 0
    /\ current_omega = At(omega_sim, i)
    /\ ClampOmega(EulerUpdate(sim, At(omega_sim, i - 1), At(m_dot_kg_s, i),
                              DtAt(i - 1), A_val, eta_val)) # current_omega

\* the time axis of a series sampled at a rate <= 0: all zero
DegenerateAxis ==
    /\ Len(t) > 0
    /\ \E fs \in {-1, 0} :
          t = SensorTime([data |-> t, fs |-> fs, start_time |-> 1])

\* a step over a pair with dt <= 0 leaves the angular velocity as it was,
\* raises nothing and moves on to the next pair
SkippedStepIsNoOp ==
    (SimStep /\ DtAt(i) <= 0) =>
        /\ current_omega' = current_omega
        /\ run_pc' = "loop"
        /\ i' = i + 1

\* C22 (non-monotonic time): a sample pair with dt <= 0 leaves the angular
\* velocity of the integrator unchanged and raises no error, the steps after
\* it go on from that velocity, and over a time axis that is all zero
\* (sampling rate <= 0) the call runs to its end with the rotor at rest.
C22_NonMonotonicTime ==
    /\ [][SkippedStepIsNoOp]_vars
    /\ [](DegenerateAxis => /\ run_pc \in {"loop", "returned"}
                            /\ current_omega = 0
                            /\ \A k \in DOMAIN N_sim : N_sim[k] = 0)

\* a turning rotor went through a pair with dt < 0 at its velocity and the
\* step after it, with dt > 0, went on from there
C22_Witness ==
    /\ run_pc = "loop"
    /\ i = 3
    /\ DtAt(0) > 0 /\ DtAt(1) < 0 /\ DtAt(2) > 0
    /\ At(omega_sim, 1) > 0
    /\ At(m_dot_kg_s, 1) # 0
    /\ At(omega_sim, 3) =
         ClampOmega(EulerUpdate(sim, At(omega_sim, 1), At(m_dot_kg_s, 2),
                                DtAt(2), A_val, eta_val))
    /\ At(omega_sim, 3) # At(omega_sim, 1)

\* the loss torque the gating rule gives at an angular velocity
GatedLoss(omega) ==
    IF omega < RestThreshold THEN 0
    ELSE sim.loss_A + sim.loss_B * omega

\* C23 (friction gating in the integrator): the loss torque a step with
\* dt > 0 subtracts is exactly 0 when the current angular velocity is below
\* the rest threshold (1e-4 rad/s) and loss_A + loss_B * omega otherwise.
C23_FrictionGating ==
    [][ (SimStep /\ DtAt(i) > 0) =>
          LET fluid == T_fluid(sim, At(m_dot_kg_s, i), current_omega,
                               A_val, eta_val)
          IN  current_omega' =
                ClampOmega(current_omega
                           + TDiv(fluid - GatedLoss(current_omega), sim.I)
                             * DtAt(i)) ]_vars

\* under nonzero loss coefficients a step from rest subtracted no loss and
\* a later step, from a velocity at or above the threshold, subtracted
\* loss_A + loss_B * omega
C23_Witness ==
    /\ run_pc = "loop"
    /\ i = 3
    /\ sim.loss_A # 0 /\ sim.loss_B # 0
    /\ \A k \in 0..2 : DtAt(k) > 0
    /\ At(omega_sim, 0) < RestThreshold
    /\ At(omega_sim, 1) =
         T_fluid(sim, At(m_dot_kg_s, 0), 0, A_val, eta_val) * DtAt(0)
    /\ At(omega_sim, 1) >= RestThreshold
    /\ At(omega_sim, 2) =
         ClampOmega(At(omega_sim, 1)
                    + TDiv(T_fluid(sim, At(m_dot_kg_s, 1), At(omega_sim, 1),
                                   A_val, eta_val)
                           - (sim.loss_A + sim.loss_B * At(omega_sim, 1)),
                           sim.I) * DtAt(1))
    /\ At(omega_sim, 2) #
         ClampOmega(At(omega_sim, 1)
                    + TDiv(T_fluid(sim, At(m_dot_kg_s, 1), At(omega_sim, 1),
                                   A_val, eta_val), sim.I) * DtAt(1))

\* C25 (output tracks state): after the pair (i, i+1) is processed, skipped
\* pairs (dt <= 0) included, the angular velocity at index i+1 of the output
\* array is the current angular velocity of the integrator.
C25_OutputTracksState ==
    (run_pc = "loop" /\ i >= 1) => At(omega_sim, i) = current_omega

\* C29 (coasting under zero flow): under loss coefficients >= 0 a step whose
\* mass-flow sample is exactly 0 does not raise the angular velocity.
C29_Coasting ==
    [][ ( /\ SimStep
          /\ sim.loss_A >= 0 /\ sim.loss_B >= 0
          /\ At(m_dot_kg_s, i) = 0 )
        => current_omega' <= current_omega ]_vars

\* a rotor that turned lost speed over a pair with dt > 0 and no flow,
\* under positive loss coefficients
C29_Witness ==
    /\ run_pc = "loop"
    /\ i >= 2
    /\ sim.loss_A > 0 /\ sim.loss_B > 0
    /\ DtAt(i - 2) > 0 /\ DtAt(i - 1) > 0
    /\ At(m_dot_kg_s, i - 1) = 0
    /\ At(omega_sim, i - 1) > 0
    /\ At(omega_sim, i) < At(omega_sim, i - 1)
    /\ current_omega = At(omega_sim, i)

-----------------------------------------------------------------------------
(* Properties of the evaluation mask and the delay candidates (SpecFit).   *)

\* the largest sample of the filtered target is positive
PositiveMaximum == \E k \in 1..Len(N_target) : N_target[k] > 0

\* the mask is, sample for sample, the participation rule, and is non-empty
\* exactly when the maximum of the target is positive
MaskIsTheRule ==
    /\ Len(mask) = Len(N_target)
    /\ \A k \in 1..Len(mask) :
          mask[k] <=> N_target[k] * 100 > MaxOf(N_target) * 5
    /\ (\E k \in 1..Len(mask) : mask[k]) <=> PositiveMaximum

\* the value every finished trial reports is the RMSE over the samples of
\* the rule
TrialsUseTheRule ==
    \A j \in 1..Len(trials) :
        trials[j].fun =
            Rmse(RunSimulationFast(simulator, SensorTime(sensor_rpm),
                                   trials[j].m_dot_kg_s,
                                   trials[j].x[1], trials[j].x[2]),
                 N_target,
                 Arr([k \in 1..Len(N_target) |->
                        N_target[k] * 100 > MaxOf(N_target) * 5]))

\* C24 (evaluation mask): the mask is computed before the delay loop and no
\* trial changes it or the target; sample i takes part in the RMSE of every
\* trial if and only if the filtered target at i is strictly greater than
\* 5% of the target's maximum, and the mask is non-empty exactly when that
\* maximum is positive.
C24_EvaluationMask ==
    /\ [](fit_pc = "loop" => MaskIsTheRule /\ TrialsUseTheRule)
    /\ [][fit_pc = "loop" => mask' = mask /\ N_target' = N_target]_vars

\* two trials have run over a mask that takes some samples and leaves
\* others out
C24_Witness ==
    /\ fit_pc = "loop"
    /\ Len(trials) >= 2
    /\ trials[1].delay # trials[2].delay
    /\ \E k \in 1..Len(mask) : mask[k]
    /\ \E k \in 1..Len(mask) : ~mask[k]
    /\ \A j \in 1..Len(trials) : IsFin(trials[j].fun)

\* C26 (delay candidates stay in range): every delay candidate of a fit, and
\* every delay a trial used, lies within [delay_min, delay_max], also when
\* delay_max - delay_min is no whole multiple of delay_step.
C26_DelayInRange ==
    fit_pc \in {"loop", "done"} =>
        /\ \A k \in 1..Len(delay_vals) :
              /\ delay_vals[k] >= fit_args.delay_range[1]
              /\ delay_vals[k] <= fit_args.delay_range[2]
        /\ \A j \in 1..Len(trials) :
              /\ trials[j].delay >= fit_args.delay_range[1]
              /\ trials[j].delay <= fit_args.delay_range[2]

-----------------------------------------------------------------------------
(* Properties of the unit policy of process (SpecSession).                 *)

\* C27 (consistent unit policy): the raw-display rpm series of process, at
\* every sample the outlier step has not blanked, is the raw sample scaled
\* by the factor get_target_rpm scaled it with; for a unit string with
\* neither 'hz' nor 'rpm' that factor is 60 in both.
C27_ConsistentUnitPolicy ==
    proc_pc = "returned" /\ "N_exp_raw" \in DOMAIN results =>
        LET unit_str == Lower(sensor_rpm.unit)
            neither == /\ ~Contains(unit_str, <<"h", "z">>)
                       /\ ~Contains(unit_str, <<"r", "p", "m">>)
        IN  \A k \in 1..Len(sensor_rpm.data) :
               /\ IsFin(results.N_exp_raw[k]) =>
                     results.N_exp_raw[k] =
                         Fin(proc_locals.target.N_converted[k])
               /\ neither =>
                     /\ proc_locals.target.N_converted[k]
                            = 60 * sensor_rpm.data[k]
                     /\ IsFin(results.N_exp_raw[k]) =>
                            results.N_exp_raw[k] = Fin(60 * sensor_rpm.data[k])

-----------------------------------------------------------------------------
(* Properties of the two torque computations (SpecTorque).                 *)

\* |x|
Abs(x) == IF x < 0 THEN 0 - x ELSE x

\* how far the rounding of k_v can move the torque: k_v moves V2 by at most
\* |m_dot|, V2 moves V_theta2 - V_theta3 by at most three times that and
\* five roundings, and the torque is eta * m_dot * r times that difference
RoundingBound(m_dot) ==
    TDiv(Abs(m_dot) * sim.r * (3 * Abs(m_dot) + 5) * sim.eta_ad, 100) + 1

-----------------------------------------------------------------------------
(* Properties of the caches of load_shot_data (SpecLoader).                *)

\* C30 (derived-channel cache coherence): a load_shot_data call without
\* force_reload that returns derived channels returns the ones computed
\* from the current raw data under the derived-channel configuration of the
\* call, whatever derived cache file an earlier call left.
C30_DerivedCacheCoherence ==
    [][ ( /\ LoadShotData
          /\ load_pc' = "returned"
          /\ ~load_args'.force_reload
          /\ load_args'.derived # 0 )
        => data_store'.derived =
             AddDerivedChannels(csv_file.content, load_args'.derived) ]_vars

=============================================================================
